---- MODULE Spec2Model ----
(***************************************************************************)
(* Provider adapters, transport router and error normalisation of the      *)
(* payment orchestration SDK.                                              *)
(*                                                                         *)
(* One transaction call is followed from the caller's dictionary to the    *)
(* value it returns or the exception it raises.  The call is cut at its    *)
(* only suspension point, the outbound HTTP call: `transaction` runs the   *)
(* handler up to requests.request, `Respond` / `TransportFault` run the    *)
(* rest of it on what the network gave back.                               *)
(*                                                                         *)
(* Three adapters are modelled:                                            *)
(*   "adyen"               payment_orchestration_sdk.providers.adyen       *)
(*   "checkout"            payment_orchestration_sdk.providers.checkout    *)
(*   "orchestration_adyen" orchestration_sdk.providers.adyen               *)
(*                                                                         *)
(* Python dictionaries are functions whose DOMAIN is the set of keys that  *)
(* are present.  requests follows redirects, so a final HTTP status is     *)
(* taken to be either 2xx or 4xx/5xx.                                      *)
(***************************************************************************)
EXTENDS Integers, Sequences, FiniteSets, TLC

VARIABLES
    pc,            \* "idle" | "awaiting" (inside requests.request) | "done"
    adapter,       \* the adapter the current call runs on
    request_data,  \* the caller's dictionary
    sent,          \* the outbound HTTP requests issued during the call
    response,      \* what the network returned to the call
    client,        \* how RequestClient.request ended: returned or raised
    result,        \* the call's outcome: a returned value or a raised exception
    instance,      \* PaymentOrchestrationSDK._instance
    init_call,     \* the last PaymentOrchestrationSDK.init: its config and outcome
    access,        \* the last provider property read since: provider and outcome
    calls,         \* concurrent callers: what each passed in and got back
    frames,        \* the local variables of the running transaction invocations
    operation      \* the adapter method the current call asked for

\* One call followed on its own, without the adapter it runs on.
single_call_vars ==
    <<pc, request_data, sent, response, client, result, operation>>

call_vars == <<single_call_vars, adapter>>

facade_vars == <<instance, init_call, access>>

concurrent_vars == <<calls, frames>>

vars == <<call_vars, facade_vars, concurrent_vars>>

----------------------------------------------------------------------------
(* Python values *)

\* None, where a string is expected.
NoneValue == "None"

\* None, where a dictionary is expected.
NoneObject == [py_none |-> TRUE]

\* {}
EmptyDict == [k \in {} |-> NoneValue]

\* d.get(k, default)
Get(d, k, default) == IF k \in DOMAIN d THEN d[k] ELSE default

\* bool(v) for a string or None
Truthy(v) == v \notin {NoneValue, ""}

\* a or b, for strings
Or(a, b) == IF Truthy(a) THEN a ELSE b

----------------------------------------------------------------------------
(* Bounds *)

\* Longest error_codes list of a Checkout error body.
MaxErrorCodes == 2

----------------------------------------------------------------------------
(* Held configuration *)

Adapters == {"adyen", "checkout", "orchestration_adyen"}

AdyenAdapters == {"adyen", "orchestration_adyen"}

api_key == "provider-api-key"

bt_api_key == "bt-api-key"

merchant_account == "merchant-1"

processing_channel == "channel-1"

\* is_test = True
base_url(a) ==
    IF a = "checkout" THEN "https://api.sandbox.checkout.com"
    ELSE "https://checkout-test.adyen.com/v71"

BT_PROXY_ENDPOINT == "https://api.basistheory.com/proxy"

\* The providers the facade knows.
Providers == {"adyen", "checkout"}

\* PaymentOrchestrationSDK(): the attributes __init__ sets.
NewInstance ==
    [is_test |-> FALSE, bt_api_key |-> NoneValue, provider_config |-> NoneObject]

\* providerConfig["adyen"] and providerConfig["checkout"] of a caller's config.
AdyenConfigDicts ==
    { [apiKey |-> "adyen-key-1", merchantAccount |-> "merchant-1"],
      [apiKey |-> "adyen-key-2", merchantAccount |-> "merchant-2"],
      [apiKey |-> "adyen-key-1"] }

CheckoutConfigDicts ==
    { [private_key |-> "checkout-key-1", processing_channel |-> "channel-1"],
      [private_key |-> "checkout-key-2"],
      [processing_channel |-> "channel-1"] }

ProviderConfigDicts ==
    {EmptyDict}
    \cup { [adyen |-> a] : a \in AdyenConfigDicts }
    \cup { [checkout |-> c] : c \in CheckoutConfigDicts }
    \cup { [adyen |-> a, checkout |-> c] :
              a \in AdyenConfigDicts, c \in CheckoutConfigDicts }

\* The config dictionaries passed to PaymentOrchestrationSDK.init: complete
\* ones, and ones that lack a required key.
ConfigDicts ==
    { [isTest |-> t, btApiKey |-> "bt-api-key", providerConfig |-> providers] :
          t \in BOOLEAN, providers \in ProviderConfigDicts }
    \cup { [btApiKey |-> "bt-api-key", providerConfig |-> EmptyDict],
           [isTest |-> TRUE, providerConfig |-> EmptyDict],
           [isTest |-> TRUE, btApiKey |-> "bt-api-key"] }

----------------------------------------------------------------------------
(* Canonical model *)

BASIS_THEORY_TOKEN == "basis_theory_token"

BASIS_THEORY_TOKEN_INTENT == "basistheory_token_intent"

PROCESSOR_TOKEN == "processor_token"

SourceType == {BASIS_THEORY_TOKEN, BASIS_THEORY_TOKEN_INTENT, PROCESSOR_TOKEN}

\* SourceType(value): the enum lookup succeeds for the enum's values only.
IsSourceType(value) == value \in SourceType

\* orchestration_sdk models.SourceType: its token intent value is the one the
\* acceptance tests of that package send and expect back.
ORCHESTRATION_BASIS_THEORY_TOKEN_INTENT == "basis_theory_token_intent"

OrchestrationSourceType ==
    {BASIS_THEORY_TOKEN, ORCHESTRATION_BASIS_THEORY_TOKEN_INTENT, PROCESSOR_TOKEN}

RecurringType == {"ONE_TIME", "CARD_ON_FILE", "SUBSCRIPTION", "UNSCHEDULED"}

\* models.py ErrorCategory and ErrorType, by member name.
ErrorCategory ==
    {"PROCESSING_ERROR", "PAYMENT_METHOD_ERROR", "FRAUD_DECLINE",
     "AUTHENTICATION_ERROR", "OTHER"}

ErrorType ==
    {"REFUSED", "REFERRAL", "ACQUIRER_ERROR", "BLOCKED_CARD", "EXPIRED_CARD",
     "INVALID_AMOUNT", "INVALID_CARD_NUMBER", "ISSUER_UNAVAILABLE",
     "PAYMENT_NOT_SUPPORTED", "THREE_DS_ERROR", "INSUFFICIENT_FUNDS", "FRAUD",
     "PAYMENT_CANCELLED", "PAYMENT_CANCELLED_BY_CONSUMER", "PIN_INVALID",
     "INCORRECT_PAYMENT", "CVC_INVALID", "RESTRICTED_CARD", "STOP_PAYMENT",
     "OTHER", "AVS_DECLINE", "PIN_REQUIRED", "BANK_ERROR", "CONTACTLESS_FALLBACK",
     "AUTHENTICATION_REQUIRED", "AUTHENTICATION_FAILURE", "PROCESSOR_BLOCKED",
     "DUPLICATE_PAYMENT", "CARD_LOST", "PAYMENT_CAPTURE_INVALID",
     "CARD_CARDHOLDER_INVALID", "NETWORK_TRANSACTION_ID_INVALID",
     "PROCESSOR_TOKEN_ERROR"}

----------------------------------------------------------------------------
(* Outcomes of a call *)

NoResult == [kind |-> "none"]

Returned(value) == [kind |-> "return", value |-> value]

Raised(exception, message) ==
    [kind |-> "raise", exception |-> exception, message |-> message]

\* Nothing initialized, nothing read.
NoInitCall == [config |-> EmptyDict, outcome |-> NoResult]

NoAccess == [provider |-> NoneValue, outcome |-> NoResult]

----------------------------------------------------------------------------
(* The caller's dictionaries *)

\* Source type strings a caller passes: the values of either package's enum;
\* "basis_theory_token_intent" is not a value of payment_orchestration_sdk's
\* SourceType, "basistheory_token_intent" not one of orchestration_sdk's.
SourceTypeInputs == SourceType \cup OrchestrationSourceType

SourceIds == {"src-1"}

AmountDicts ==
    { EmptyDict, [currency |-> "USD"], [value |-> 1],
      [value |-> 1, currency |-> "EUR"] }

SourceDicts ==
    { [type |-> t, id |-> i] : t \in SourceTypeInputs, i \in SourceIds }
    \cup { [type |-> t, id |-> i, store_with_provider |-> TRUE] :
             t \in {BASIS_THEORY_TOKEN}, i \in SourceIds }
    \cup { [type |-> t] : t \in {BASIS_THEORY_TOKEN, PROCESSOR_TOKEN} }
    \cup { [id |-> i] : i \in SourceIds }

References == {"ref-1"}

\* The dictionary with the keys the flags select.
RequestDict(hasAmount, amount, hasSource, source, hasReference, reference) ==
    [k \in (IF hasAmount THEN {"amount"} ELSE {})
           \cup (IF hasSource THEN {"source"} ELSE {})
           \cup (IF hasReference THEN {"reference"} ELSE {}) |->
        CASE k = "amount" -> amount
          [] k = "source" -> source
          [] OTHER -> reference]

\* The dictionaries that differ in their required keys.
RequiredKeyDicts ==
    { RequestDict(ha, a, hs, s, hr, r) :
        ha \in BOOLEAN, a \in AmountDicts, hs \in BOOLEAN, s \in SourceDicts,
        hr \in BOOLEAN, r \in References }

AddressDicts ==
    { [city |-> "Paris"], [address_line2 |-> "Floor 2"],
      [address_line1 |-> "1 Main St", city |-> "Paris", state |-> "IDF",
       zip |-> "75001", country |-> "FR"] }

CustomerDicts ==
    { EmptyDict, [reference |-> "cust-1"], [first_name |-> "Ada"],
      [email |-> "ada@example.com"],
      [reference |-> "cust-1", first_name |-> "Ada", last_name |-> "Lovelace",
       email |-> "ada@example.com"] }
    \cup { [address |-> ad] : ad \in AddressDicts \cup {EmptyDict} }
    \cup { [email |-> "ada@example.com", address |-> ad] : ad \in AddressDicts }

StatementDicts ==
    { EmptyDict, [name |-> "Shop"], [city |-> "Paris"],
      [name |-> "Shop", city |-> "Paris"] }

ThreeDSDicts ==
    { EmptyDict, [eci |-> "05"], [version |-> ""],
      [eci |-> "05", authentication_value |-> "cavv", xid |-> "xid-1",
       version |-> "2.2.0"] }

\* override_provider_properties: a leaf of a nested object, a top-level leaf,
\* a key the builders never derive, and two of Checkout.com's top-level keys.
OverrideDicts ==
    { [amount |-> [value |-> 999]],
      [shopperInteraction |-> "Moto"],
      [amount |-> [currency |-> "GBP"], captureDelayHours |-> "2"],
      [currency |-> "GBP", reference |-> "override-ref"] }

\* Optional keys added to a dictionary whose required keys are there.
OptionalKeyDicts ==
    { [customer |-> c] : c \in CustomerDicts }
    \cup { [statement_description |-> d] : d \in StatementDicts }
    \cup { ("3ds" :> d) : d \in ThreeDSDicts }
    \cup { [override_provider_properties |-> o] : o \in OverrideDicts }
    \cup { [override_provider_properties |-> EmptyDict],
           [metadata |-> [order |-> "o-1"]],
           [merchant_initiated |-> TRUE, type |-> "UNSCHEDULED"],
           [type |-> "ONE_TIME"], [type |-> "SUBSCRIPTION"], [type |-> "WEEKLY"],
           [customer |-> [email |-> "ada@example.com"],
            statement_description |-> [name |-> "Shop"]] @@ ("3ds" :> [eci |-> "05"]) }

OptionalKeyRequestDicts ==
    { [amount |-> [value |-> 1000, currency |-> "USD"], source |-> src] @@ opt :
        src \in { [type |-> BASIS_THEORY_TOKEN, id |-> "src-1"],
                  [type |-> PROCESSOR_TOKEN, id |-> "src-1"],
                  [type |-> PROCESSOR_TOKEN, id |-> "src-1", holderName |-> "Ada L",
                   holder_name |-> "Ada L"] },
        opt \in OptionalKeyDicts }

\* Dictionaries with every required key, whose amount.value and source.id take
\* the values on either side of what Amount and Source are meant to hold.
BoundaryValueRequestDicts ==
    { [reference |-> "ref-1",
       amount |-> [value |-> v, currency |-> "USD"],
       source |-> [type |-> t, id |-> i]] :
        v \in {0 - 1, 0, 1000}, i \in {"", "src-1"},
        t \in {BASIS_THEORY_TOKEN, PROCESSOR_TOKEN} }

RequestDicts ==
    RequiredKeyDicts \cup OptionalKeyRequestDicts \cup BoundaryValueRequestDicts

\* The fields section 4.1 requires.
LacksRequiredField(data) ==
    \/ "amount" \notin DOMAIN data
    \/ "value" \notin DOMAIN data["amount"]
    \/ "source" \notin DOMAIN data
    \/ "type" \notin DOMAIN data["source"]
    \/ "id" \notin DOMAIN data["source"]

\* Number of callers running transaction at the same time.
MaxCallers == 2

Callers == 1 .. MaxCallers

\* What concurrent callers pass: two complete dictionaries that differ in
\* every field, and one without source.id.
ConcurrentRequestDicts ==
    { [amount |-> [value |-> 1000, currency |-> "USD"],
       source |-> [type |-> BASIS_THEORY_TOKEN, id |-> "src-1"],
       reference |-> "order-1"],
      [amount |-> [value |-> 2500, currency |-> "EUR"],
       source |-> [type |-> PROCESSOR_TOKEN, id |-> "src-2"],
       reference |-> "order-2"],
      [amount |-> [value |-> 1000, currency |-> "USD"],
       source |-> [type |-> BASIS_THEORY_TOKEN],
       reference |-> "order-3"] }

\* A caller that is not in a call, and a frame nothing has run in.
NoCall ==
    [pc |-> "idle", input |-> EmptyDict, sent |-> <<>>,
     response |-> [status_code |-> 0], result |-> NoResult]

NoFrame == [request |-> NoneObject, payload |-> EmptyDict, headers |-> EmptyDict]

\* The refund requests of the acceptance tests: a reference and an amount.
RefundRequestDicts ==
    { [reference |-> "order-1_refund", amount |-> 500],
      [reference |-> "order-1_refund", amount |-> 100000000] }

\* The class behind each adapter and the public methods it defines.
ClassName(a) == IF a = "checkout" THEN "CheckoutClient" ELSE "AdyenClient"

AdapterMethods(a) == {"transaction"}

\* getattr(adapter, name) for a method name.
getattr(a, name) ==
    IF name \in AdapterMethods(a) THEN Returned(name)
    ELSE Raised("AttributeError",
                "'" \o ClassName(a) \o "' object has no attribute '" \o name \o "'")

----------------------------------------------------------------------------
(* Validation and request construction *)

\* AdyenClient._validate_required_fields: the message of the ValidationError
\* it raises, "" when it returns.
_validate_required_fields(data) ==
    IF "amount" \notin DOMAIN data \/ "value" \notin DOMAIN data["amount"]
    THEN "amount.value is required"
    ELSE IF \/ "source" \notin DOMAIN data
            \/ "type" \notin DOMAIN data["source"]
            \/ "id" \notin DOMAIN data["source"]
    THEN "source.type and source.id are required"
    ELSE ""

\* utils.model_utils.validate_required_fields, imported by checkout.py and by
\* orchestration_sdk/providers/adyen.py: the same check, moved to a module.
validate_required_fields(data) ==
    IF "amount" \notin DOMAIN data \/ "value" \notin DOMAIN data["amount"]
    THEN "amount.value is required"
    ELSE IF \/ "source" \notin DOMAIN data
            \/ "type" \notin DOMAIN data["source"]
            \/ "id" \notin DOMAIN data["source"]
    THEN "source.type and source.id are required"
    ELSE ""

\* _create_address: None for a missing or empty dictionary, else an Address
\* whose unset fields are None.
_create_address(data) ==
    IF data = NoneObject \/ data = EmptyDict THEN NoneObject
    ELSE [address_line1 |-> Get(data, "address_line1", NoneValue),
          address_line2 |-> Get(data, "address_line2", NoneValue),
          city |-> Get(data, "city", NoneValue),
          state |-> Get(data, "state", NoneValue),
          zip |-> Get(data, "zip", NoneValue),
          country |-> Get(data, "country", NoneValue)]

\* _create_customer
_create_customer(data) ==
    IF data = NoneObject \/ data = EmptyDict THEN NoneObject
    ELSE [reference |-> Get(data, "reference", NoneValue),
          first_name |-> Get(data, "first_name", NoneValue),
          last_name |-> Get(data, "last_name", NoneValue),
          email |-> Get(data, "email", NoneValue),
          address |-> _create_address(Get(data, "address", NoneObject))]

\* _create_three_ds
_create_three_ds(data) ==
    IF data = NoneObject \/ data = EmptyDict THEN NoneObject
    ELSE [eci |-> Get(data, "eci", NoneValue),
          authentication_value |-> Get(data, "authentication_value", NoneValue),
          xid |-> Get(data, "xid", NoneValue),
          version |-> Get(data, "version", NoneValue)]

\* StatementDescription(**data): an object even for an empty dictionary.
StatementDescription(data) ==
    [name |-> Get(data, "name", NoneValue), city |-> Get(data, "city", NoneValue)]

\* The fields of the TransactionRequest that create_transaction_request fills
\* from the optional keys of the dictionary.
OptionalFields(data) ==
    [reference |-> Get(data, "reference", NoneValue),
     merchant_initiated |-> Get(data, "merchant_initiated", FALSE),
     type |-> Get(data, "type", NoneValue),
     customer |-> IF "customer" \in DOMAIN data
                  THEN _create_customer(data["customer"]) ELSE NoneObject,
     statement_description |->
        IF "statement_description" \in DOMAIN data
        THEN StatementDescription(data["statement_description"]) ELSE NoneObject,
     three_ds |-> IF "3ds" \in DOMAIN data
                  THEN _create_three_ds(data["3ds"]) ELSE NoneObject]

\* create_transaction_request, given the values of the SourceType enum it
\* looks source.type up in: the exception it raises ("" for none), the
\* exception's text, and the TransactionRequest it builds.  Arguments are
\* evaluated in the order they are written: amount, then source.
build_transaction_request(data, source_types) ==
    IF "amount" \notin DOMAIN data
    THEN [exception |-> "KeyError", message |-> "'amount'", request |-> NoneObject]
    ELSE IF "value" \notin DOMAIN data["amount"]
    THEN [exception |-> "KeyError", message |-> "'value'", request |-> NoneObject]
    ELSE IF "source" \notin DOMAIN data
    THEN [exception |-> "KeyError", message |-> "'source'", request |-> NoneObject]
    ELSE IF "type" \notin DOMAIN data["source"]
    THEN [exception |-> "KeyError", message |-> "'type'", request |-> NoneObject]
    ELSE IF data["source"]["type"] \notin source_types
    THEN [exception |-> "ValueError",
          message |-> "'" \o data["source"]["type"] \o "' is not a valid SourceType",
          request |-> NoneObject]
    ELSE IF "id" \notin DOMAIN data["source"]
    THEN [exception |-> "KeyError", message |-> "'id'", request |-> NoneObject]
    ELSE IF "type" \in DOMAIN data /\ data["type"] \notin RecurringType
    THEN [exception |-> "ValueError",
          message |-> "'" \o data["type"] \o "' is not a valid RecurringType",
          request |-> NoneObject]
    ELSE [exception |-> "", message |-> "",
          request |->
            [amount |-> [value |-> data["amount"]["value"],
                         currency |-> Get(data["amount"], "currency", "USD")],
             source |-> [type |-> data["source"]["type"],
                         id |-> data["source"]["id"],
                         store_with_provider |->
                             Get(data["source"], "store_with_provider", FALSE),
                         holderName |-> Get(data["source"], "holderName", NoneValue)],
             metadata |-> NoneObject,
             override_provider_properties |-> NoneObject]
            @@ OptionalFields(data)]

\* payment_orchestration_sdk utils.model_utils.create_transaction_request
create_transaction_request(data) == build_transaction_request(data, SourceType)

\* orchestration_sdk utils.model_utils.create_transaction_request: the same
\* conversion over that package's SourceType, which also carries holder_name,
\* metadata and override_provider_properties into the TransactionRequest.
orchestration_create_transaction_request(data) ==
    LET built == build_transaction_request(data, OrchestrationSourceType)
    IN  IF built.exception # "" THEN built
        ELSE [built EXCEPT
                !.request =
                    [@ EXCEPT
                       !.source.holderName =
                           Get(data["source"], "holder_name", NoneValue),
                       !.metadata = Get(data, "metadata", NoneObject),
                       !.override_provider_properties =
                           Get(data, "override_provider_properties", NoneObject)]]

----------------------------------------------------------------------------
(* Payload construction *)

\* f"{{ {token_prefix}: {id} | json: '{path}'}}", kept as its three parts.
Expression(token_prefix, id, path) ==
    [token_prefix |-> token_prefix, id |-> id, json |-> path]

\* request.source.type == SourceType.BASIS_THEORY_TOKEN_INTENT, in the package
\* the request was built in.
token_prefix(request) ==
    IF request.source.type \in {BASIS_THEORY_TOKEN_INTENT,
                                ORCHESTRATION_BASIS_THEORY_TOKEN_INTENT}
    THEN "token_intent" ELSE "token"

\* payload[k] = v, made only when v is truthy.
Opt(k, v) == IF Truthy(v) THEN (k :> v) ELSE EmptyDict

\* adyen.py RECURRING_TYPE_MAPPING (the same table in both packages).
ADYEN_RECURRING_TYPE_MAPPING ==
    ("ONE_TIME" :> NoneValue) @@
    ("CARD_ON_FILE" :> "CardOnFile") @@
    ("SUBSCRIPTION" :> "Subscription") @@
    ("UNSCHEDULED" :> "UnscheduledCardOnFile")

\* checkout.py RECURRING_TYPE_MAPPING
CHECKOUT_RECURRING_TYPE_MAPPING ==
    ("ONE_TIME" :> "Regular") @@
    ("CARD_ON_FILE" :> "CardOnFile") @@
    ("SUBSCRIPTION" :> "Recurring") @@
    ("UNSCHEDULED" :> "Unscheduled")

\* The card fields of an Adyen paymentMethod, as Basis Theory expressions.
adyen_card_expressions(request) ==
    [number |-> Expression(token_prefix(request), request.source.id, "$.data.number"),
     expiryMonth |-> Expression(token_prefix(request), request.source.id,
                                "$.data.expiration_month"),
     expiryYear |-> Expression(token_prefix(request), request.source.id,
                               "$.data.expiration_year"),
     cvc |-> Expression(token_prefix(request), request.source.id, "$.data.cvc")]

\* A paymentMethod that carries the card expressions for every source type.
adyen_payment_method_with_card(request) ==
    [type |-> "scheme"]
    @@ (IF request.source.type = PROCESSOR_TOKEN
        THEN [storedPaymentMethodId |-> request.source.id]
        ELSE EmptyDict)
    @@ adyen_card_expressions(request)
    @@ Opt("holderName", request.source.holderName)

\* payload["paymentMethod"] of both Adyen adapters.
adyen_payment_method(request) ==
    [type |-> "scheme"]
    @@ (IF request.source.type = PROCESSOR_TOKEN
        THEN [storedPaymentMethodId |-> request.source.id]
        ELSE adyen_card_expressions(request))
    @@ Opt("holderName", request.source.holderName)

\* any([address.address_line1, address.city, address.state, address.zip,
\*      address.country])
adyen_address_mapped(address) ==
    \/ Truthy(address.address_line1)
    \/ Truthy(address.city)
    \/ Truthy(address.state)
    \/ Truthy(address.zip)
    \/ Truthy(address.country)

\* The shopper keys both Adyen adapters derive from request.customer; country
\* is what the adapter puts under billingAddress.country ({} for nothing).
adyen_customer_fields(customer, country) ==
    IF customer = NoneObject THEN EmptyDict
    ELSE Opt("shopperReference", customer.reference)
         @@ (IF Truthy(customer.first_name) \/ Truthy(customer.last_name)
             THEN ("shopperName" :> (Opt("firstName", customer.first_name)
                                     @@ Opt("lastName", customer.last_name)))
             ELSE EmptyDict)
         @@ Opt("shopperEmail", customer.email)
         @@ (IF customer.address # NoneObject /\ adyen_address_mapped(customer.address)
             THEN ("billingAddress" :>
                     (Opt("street", customer.address.address_line1)
                      @@ Opt("city", customer.address.city)
                      @@ Opt("stateOrProvince", customer.address.state)
                      @@ Opt("postalCode", customer.address.zip)
                      @@ country))
             ELSE EmptyDict)

\* The threeDSecure object both Adyen adapters fill from request.three_ds.
adyen_three_ds_data(three_ds) ==
    Opt("eci", three_ds.eci)
    @@ Opt("authenticationValue", three_ds.authentication_value)
    @@ Opt("xid", three_ds.xid)
    @@ Opt("threeDSVersion", three_ds.version)

\* The keys both Adyen adapters always set, and reference.
adyen_base_payload(request) ==
    [amount |-> [value |-> request.amount.value,
                 currency |-> request.amount.currency],
     merchantAccount |-> merchant_account,
     shopperInteraction |->
        IF request.merchant_initiated THEN "ContAuth" ELSE "Ecommerce",
     storePaymentMethod |-> request.source.store_with_provider]
    @@ Opt("reference", request.reference)

\* payment_orchestration_sdk AdyenClient._transform_to_adyen_payload
_transform_to_adyen_payload(request) ==
    adyen_base_payload(request)
    @@ (IF Truthy(request.type)
        THEN ("recurringProcessingModel" :> ADYEN_RECURRING_TYPE_MAPPING[request.type])
        ELSE EmptyDict)
    @@ ("paymentMethod" :> adyen_payment_method(request))
    @@ adyen_customer_fields(
           request.customer,
           IF request.customer # NoneObject /\ request.customer.address # NoneObject
           THEN ("country" :> Or(request.customer.address.country, "ZZ"))
           ELSE EmptyDict)
    @@ (IF request.statement_description # NoneObject
        THEN Opt("shopperStatement", request.statement_description.name)
        ELSE EmptyDict)
    @@ (IF request.three_ds # NoneObject
        THEN ("additionalData" :>
                [threeDSecure |-> adyen_three_ds_data(request.three_ds)])
        ELSE EmptyDict)

\* Keys of a payload whose values are objects.
ObjectKeys ==
    {"amount", "paymentMethod", "shopperName", "billingAddress", "additionalData",
     "metadata"}

\* deepmerge always_merger.merge(base, nxt): objects are merged key by key,
\* anything else is replaced by nxt's value.  The overrides of this model
\* reach two levels down.
always_merger_merge(base, nxt) ==
    [k \in DOMAIN base \cup DOMAIN nxt |->
        IF k \notin DOMAIN nxt THEN base[k]
        ELSE IF k \notin DOMAIN base THEN nxt[k]
        ELSE IF k \in ObjectKeys THEN nxt[k] @@ base[k]
        ELSE nxt[k]]

\* orchestration_sdk AdyenClient._transform_to_adyen_payload
orchestration_transform_to_adyen_payload(request) ==
    LET payload ==
            adyen_base_payload(request)
            @@ (IF request.metadata # NoneObject /\ request.metadata # EmptyDict
                THEN ("metadata" :> request.metadata) ELSE EmptyDict)
            @@ (IF Truthy(request.type)
                THEN Opt("recurringProcessingModel",
                         Get(ADYEN_RECURRING_TYPE_MAPPING, request.type, NoneValue))
                ELSE EmptyDict)
            @@ ("paymentMethod" :> adyen_payment_method(request))
            @@ adyen_customer_fields(
                   request.customer,
                   IF request.customer # NoneObject
                      /\ request.customer.address # NoneObject
                   THEN Opt("country", request.customer.address.country)
                   ELSE EmptyDict)
            @@ (IF request.statement_description # NoneObject
                THEN Opt("shopperStatement", request.statement_description.name)
                ELSE EmptyDict)
            @@ (IF request.three_ds # NoneObject
                   /\ adyen_three_ds_data(request.three_ds) # EmptyDict
                THEN ("additionalData" :>
                        [threeDSecure |-> adyen_three_ds_data(request.three_ds)])
                ELSE EmptyDict)
    IN  IF request.override_provider_properties # NoneObject
           /\ request.override_provider_properties # EmptyDict
        THEN always_merger_merge(payload, request.override_provider_properties)
        ELSE payload

\* " ".join(name_parts)
checkout_customer_name(customer) ==
    IF Truthy(customer.first_name) /\ Truthy(customer.last_name)
    THEN customer.first_name \o " " \o customer.last_name
    ELSE Or(customer.first_name, customer.last_name)

\* payload["source"] of CheckoutClient._transform_to_checkout_payload, with the
\* billing_address and billing_descriptor put into it further down.
checkout_source(request) ==
    (IF request.source.type = PROCESSOR_TOKEN
     THEN [type |-> "id", id |-> request.source.id]
     ELSE [type |-> "card",
           number |-> Expression(token_prefix(request), request.source.id,
                                 "$.data.number"),
           expiry_month |-> Expression(token_prefix(request), request.source.id,
                                       "$.data.expiration_month"),
           expiry_year |-> Expression(token_prefix(request), request.source.id,
                                      "$.data.expiration_year"),
           cvv |-> Expression(token_prefix(request), request.source.id,
                              "$.data.cvc"),
           store_for_future_use |-> request.source.store_with_provider])
    @@ (IF request.customer # NoneObject /\ request.customer.address # NoneObject
        THEN ("billing_address" :>
                (Opt("address_line1", request.customer.address.address_line1)
                 @@ Opt("address_line2", request.customer.address.address_line2)
                 @@ Opt("city", request.customer.address.city)
                 @@ Opt("state", request.customer.address.state)
                 @@ Opt("zip", request.customer.address.zip)
                 @@ Opt("country", request.customer.address.country)))
        ELSE EmptyDict)
    @@ (IF request.statement_description # NoneObject
        THEN ("billing_descriptor" :>
                (Opt("name", request.statement_description.name)
                 @@ Opt("city", request.statement_description.city)))
        ELSE EmptyDict)

\* CheckoutClient._transform_to_checkout_payload
_transform_to_checkout_payload(request) ==
    [amount |-> request.amount.value,
     currency |-> request.amount.currency,
     merchant_initiated |-> request.merchant_initiated,
     payment_type |-> Get(CHECKOUT_RECURRING_TYPE_MAPPING, request.type, NoneValue),
     processing_channel_id |-> processing_channel,
     reference |-> request.reference,
     source |-> checkout_source(request)]
    @@ (IF request.customer # NoneObject
        THEN ("customer" :>
                ((IF Truthy(request.customer.first_name)
                     \/ Truthy(request.customer.last_name)
                  THEN ("name" :> checkout_customer_name(request.customer))
                  ELSE EmptyDict)
                 @@ Opt("email", request.customer.email)))
        ELSE EmptyDict)
    @@ (IF request.three_ds # NoneObject
        THEN ("3ds" :>
                (Opt("eci", request.three_ds.eci)
                 @@ Opt("cryptogram", request.three_ds.authentication_value)
                 @@ Opt("xid", request.three_ds.xid)
                 @@ Opt("version", request.three_ds.version)))
        ELSE EmptyDict)

BuildPayload(a, request) ==
    CASE a = "adyen" -> _transform_to_adyen_payload(request)
      [] a = "checkout" -> _transform_to_checkout_payload(request)
      [] OTHER -> orchestration_transform_to_adyen_payload(request)

\* The headers transaction sets up before the call.
CommonHeaders(a) ==
    IF a = "checkout"
    THEN ("Authorization" :> ("Bearer " \o api_key))
         @@ ("Content-Type" :> "application/json")
    ELSE ("X-API-Key" :> api_key) @@ ("Content-Type" :> "application/json")

----------------------------------------------------------------------------
(* Transport router: dispatch *)

\* A dispatch rule that sends only plain tokens through the proxy, so that a
\* token intent goes to the processor directly.
use_bt_proxy_token_only(request) == request.source.type = BASIS_THEORY_TOKEN

\* The use_bt_proxy argument transaction passes (the same expression in the
\* three adapters).
use_bt_proxy(request) == request.source.type # PROCESSOR_TOKEN

\* A client that sends a proxied call with the proxy's two headers alone.
request_calls_proxy_headers_only(url, method, headers, data, proxy) ==
    << [method |-> method,
        url |-> IF proxy THEN BT_PROXY_ENDPOINT ELSE url,
        headers |-> IF proxy
                    THEN ("BT-API-KEY" :> bt_api_key) @@ ("BT-PROXY-URL" :> url)
                    ELSE headers,
        json |-> data] >>

\* A client that repeats the call once, as a retry loop would.
request_calls_retrying(url, method, headers, data, proxy) ==
    LET call == [method |-> method,
                 url |-> IF proxy THEN BT_PROXY_ENDPOINT ELSE url,
                 headers |-> IF proxy
                             THEN ("BT-API-KEY" :> bt_api_key)
                                  @@ ("BT-PROXY-URL" :> url) @@ headers
                             ELSE headers,
                 json |-> data]
    IN  << call, call >>

\* RequestClient.request up to the return of requests.request: the HTTP calls
\* it makes, in order.
request_calls(url, method, headers, data, proxy) ==
    IF proxy
    THEN << [method |-> method,
             url |-> BT_PROXY_ENDPOINT,
             headers |-> ("BT-API-KEY" :> bt_api_key)
                         @@ (IF "BT-PROXY-URL" \in DOMAIN headers
                             THEN EmptyDict ELSE ("BT-PROXY-URL" :> url))
                         @@ headers,
             json |-> data] >>
    ELSE << [method |-> method, url |-> url, headers |-> headers, json |-> data] >>

----------------------------------------------------------------------------
(* Mapping tables *)

\* adyen.py STATUS_CODE_MAPPING (the same table in both packages).
ADYEN_STATUS_CODE_MAPPING ==
    ("Authorised" :> "AUTHORIZED") @@
    ("Pending" :> "PENDING") @@
    ("Error" :> "DECLINED") @@
    ("Refused" :> "DECLINED") @@
    ("Cancelled" :> "CANCELLED") @@
    ("ChallengeShopper" :> "CHALLENGE_SHOPPER") @@
    ("Received" :> "RECEIVED") @@
    ("PartiallyAuthorised" :> "PARTIALLY_AUTHORIZED")

\* checkout.py STATUS_CODE_MAPPING.
CHECKOUT_STATUS_CODE_MAPPING ==
    ("Authorized" :> "AUTHORIZED") @@
    ("Pending" :> "PENDING") @@
    ("Card Verified" :> "CARD_VERIFIED") @@
    ("Declined" :> "DECLINED") @@
    ("Retry Scheduled" :> "RETRY_SCHEDULED")

\* payment_orchestration_sdk adyen.py ERROR_CODE_MAPPING:
\* refusalReasonCode -> <<ErrorType, ErrorCategory>>.
ADYEN_ERROR_CODE_MAPPING ==
    ("2" :> <<"REFUSED", "PROCESSING_ERROR">>) @@
    ("3" :> <<"REFERRAL", "PROCESSING_ERROR">>) @@
    ("4" :> <<"ACQUIRER_ERROR", "OTHER">>) @@
    ("5" :> <<"BLOCKED_CARD", "PAYMENT_METHOD_ERROR">>) @@
    ("6" :> <<"EXPIRED_CARD", "PAYMENT_METHOD_ERROR">>) @@
    ("7" :> <<"INVALID_AMOUNT", "OTHER">>) @@
    ("8" :> <<"INVALID_CARD", "PAYMENT_METHOD_ERROR">>) @@
    ("9" :> <<"OTHER", "OTHER">>) @@
    ("10" :> <<"NOT_SUPPORTED", "PROCESSING_ERROR">>) @@
    ("11" :> <<"AUTHENTICATION_FAILURE", "PAYMENT_METHOD_ERROR">>) @@
    ("12" :> <<"INSUFFICENT_FUNDS", "PAYMENT_METHOD_ERROR">>) @@
    ("14" :> <<"FRAUD", "FRAUD_DECLINE">>) @@
    ("15" :> <<"PAYMENT_CANCELLED", "OTHER">>) @@
    ("16" :> <<"PAYMENT_CANCELLED_BY_CONSUMER", "PROCESSING_ERROR">>) @@
    ("17" :> <<"INVALID_PIN", "PAYMENT_METHOD_ERROR">>) @@
    ("18" :> <<"PIN_TRIES_EXCEEDED", "PAYMENT_METHOD_ERROR">>) @@
    ("19" :> <<"OTHER", "PAYMENT_METHOD_ERROR">>) @@
    ("20" :> <<"FRAUD", "FRAUD_DECLINE">>) @@
    ("21" :> <<"OTHER", "OTHER">>) @@
    ("22" :> <<"FRAUD", "FRAUD_DECLINE">>) @@
    ("23" :> <<"NOT_SUPPORTED", "PROCESSING_ERROR">>) @@
    ("24" :> <<"CVC_INVALID", "PAYMENT_METHOD_ERROR">>) @@
    ("25" :> <<"RESTRICTED_CARD", "PROCESSING_ERROR">>) @@
    ("26" :> <<"STOP_PAYMENT", "PROCESSING_ERROR">>) @@
    ("27" :> <<"OTHER", "OTHER">>) @@
    ("28" :> <<"INSUFFICENT_FUNDS", "PROCESSING_ERROR">>) @@
    ("29" :> <<"INSUFFICENT_FUNDS", "PROCESSING_ERROR">>) @@
    ("31" :> <<"FRAUD", "FRAUD_DECLINE">>) @@
    ("32" :> <<"AVS_DECLINE", "PROCESSING_ERROR">>) @@
    ("33" :> <<"PIN_REQUIRED", "PROCESSING_ERROR">>) @@
    ("34" :> <<"BANK_ERROR", "PROCESSING_ERROR">>) @@
    ("35" :> <<"BANK_ERROR", "PROCESSING_ERROR">>) @@
    ("36" :> <<"PIN_REQUIRED", "PROCESSING_ERROR">>) @@
    ("37" :> <<"CONTACTLESS_FALLBACK", "PROCESSING_ERROR">>) @@
    ("38" :> <<"AUTHENTICATION_REQUIRED", "PROCESSING_ERROR">>) @@
    ("39" :> <<"AUTHENTICATION_FAILURE", "AUTHENTICATION_ERROR">>) @@
    ("40" :> <<"OTHER", "OTHER">>) @@
    ("41" :> <<"PIN_REQUIRED", "PROCESSING_ERROR">>) @@
    ("42" :> <<"AUTHENTICATION_FAILURE", "AUTHENTICATION_ERROR">>) @@
    ("43" :> <<"PIN_REQUIRED", "PROCESSING_ERROR">>) @@
    ("44" :> <<"OTHER", "PROCESSING_ERROR">>) @@
    ("45" :> <<"OTHER", "PROCESSING_ERROR">>) @@
    ("46" :> <<"PROCESSOR_BLOCKED", "PROCESSING_ERROR">>)

\* orchestration_sdk adyen.py ERROR_CODE_MAPPING: refusalReasonCode -> ErrorType.
ORCHESTRATION_ADYEN_ERROR_CODE_MAPPING ==
    ("2" :> "REFUSED") @@
    ("3" :> "REFERRAL") @@
    ("4" :> "ACQUIRER_ERROR") @@
    ("5" :> "BLOCKED_CARD") @@
    ("6" :> "EXPIRED_CARD") @@
    ("7" :> "INVALID_AMOUNT") @@
    ("8" :> "INVALID_CARD") @@
    ("9" :> "OTHER") @@
    ("10" :> "NOT_SUPPORTED") @@
    ("11" :> "AUTHENTICATION_FAILURE") @@
    ("12" :> "INSUFFICENT_FUNDS") @@
    ("14" :> "FRAUD") @@
    ("15" :> "PAYMENT_CANCELLED") @@
    ("16" :> "PAYMENT_CANCELLED_BY_CONSUMER") @@
    ("17" :> "INVALID_PIN") @@
    ("18" :> "PIN_TRIES_EXCEEDED") @@
    ("19" :> "OTHER") @@
    ("20" :> "FRAUD") @@
    ("21" :> "OTHER") @@
    ("22" :> "FRAUD") @@
    ("23" :> "NOT_SUPPORTED") @@
    ("24" :> "CVC_INVALID") @@
    ("25" :> "RESTRICTED_CARD") @@
    ("26" :> "STOP_PAYMENT") @@
    ("27" :> "REFUSED") @@
    ("28" :> "INSUFFICENT_FUNDS") @@
    ("29" :> "INSUFFICENT_FUNDS") @@
    ("31" :> "FRAUD") @@
    ("32" :> "AVS_DECLINE") @@
    ("33" :> "PIN_REQUIRED") @@
    ("34" :> "BANK_ERROR") @@
    ("35" :> "BANK_ERROR") @@
    ("36" :> "PIN_REQUIRED") @@
    ("37" :> "CONTACTLESS_FALLBACK") @@
    ("38" :> "AUTHENTICATION_REQUIRED") @@
    ("39" :> "AUTHENTICATION_FAILURE") @@
    ("40" :> "OTHER") @@
    ("41" :> "PIN_REQUIRED") @@
    ("42" :> "AUTHENTICATION_FAILURE") @@
    ("43" :> "PIN_REQUIRED") @@
    ("44" :> "OTHER") @@
    ("45" :> "OTHER") @@
    ("46" :> "PROCESSOR_BLOCKED")

\* checkout.py ERROR_CODE_MAPPING: error code -> ErrorType.
CHECKOUT_ERROR_CODE_MAPPING ==
    ("card_authorization_failed" :> "REFUSED") @@
    ("card_disabled" :> "BLOCKED_CARD") @@
    ("card_expired" :> "EXPIRED_CARD") @@
    ("card_expiry_month_invalid" :> "INVALID_CARD") @@
    ("card_expiry_month_required" :> "INVALID_CARD") @@
    ("card_expiry_year_invalid" :> "INVALID_CARD") @@
    ("card_expiry_year_required" :> "INVALID_CARD") @@
    ("expiry_date_format_invalid" :> "INVALID_CARD") @@
    ("card_not_found" :> "INVALID_CARD") @@
    ("card_number_invalid" :> "INVALID_CARD") @@
    ("card_number_required" :> "INVALID_CARD") @@
    ("issuer_network_unavailable" :> "OTHER") @@
    ("card_not_eligible_domestic_money_transfer" :> "NOT_SUPPORTED") @@
    ("card_not_eligible_cross_border_money_transfer" :> "NOT_SUPPORTED") @@
    ("card_not_eligible_domestic_non_money_transfer" :> "NOT_SUPPORTED") @@
    ("card_not_eligible_cross_border_non_money_transfer" :> "NOT_SUPPORTED") @@
    ("card_not_eligible_domestic_online_gambling" :> "NOT_SUPPORTED") @@
    ("card_not_eligible_cross_border_online_gambling" :> "NOT_SUPPORTED") @@
    ("3ds_not_enabled_for_card" :> "AUTHENTICATION_FAILURE") @@
    ("3ds_not_supported" :> "AUTHENTICATION_FAILURE") @@
    ("amount_exceeds_balance" :> "INSUFFICENT_FUNDS") @@
    ("amount_limit_exceeded" :> "INSUFFICENT_FUNDS") @@
    ("payment_expired" :> "PAYMENT_CANCELLED") @@
    ("cvv_invalid" :> "CVC_INVALID") @@
    ("processing_error" :> "OTHER") @@
    ("velocity_amount_limit_exceeded" :> "INSUFFICENT_FUNDS") @@
    ("velocity_count_limit_exceeded" :> "INSUFFICENT_FUNDS") @@
    ("address_invalid" :> "AVS_DECLINE") @@
    ("city_invalid" :> "AVS_DECLINE") @@
    ("country_address_invalid" :> "AVS_DECLINE") @@
    ("country_invalid" :> "AVS_DECLINE") @@
    ("country_phone_code_invalid" :> "AVS_DECLINE") @@
    ("country_phone_code_length_invalid" :> "AVS_DECLINE") @@
    ("phone_number_invalid" :> "AVS_DECLINE") @@
    ("phone_number_length_invalid" :> "AVS_DECLINE") @@
    ("zip_invalid" :> "AVS_DECLINE") @@
    ("action_failure_limit_exceeded" :> "PROCESSOR_BLOCKED") @@
    ("token_expired" :> "OTHER") @@
    ("token_in_use" :> "OTHER") @@
    ("token_invalid" :> "OTHER") @@
    ("token_used" :> "OTHER") @@
    ("capture_value_greater_than_authorized" :> "OTHER") @@
    ("capture_value_greater_than_remaining_authorized" :> "OTHER") @@
    ("card_holder_invalid" :> "OTHER") @@
    ("previous_payment_id_invalid" :> "OTHER") @@
    ("processing_channel_id_required" :> "CONFIGURATION_ERROR") @@
    ("success_url_required" :> "CONFIGURATION_ERROR") @@
    ("source_token_invalid" :> "INVALID_SOURCE_TOKEN")

\* ErrorType.code, the property the adapters and the router read.
ErrorTypeCode(error_type) == error_type

\* ErrorType.category.  The enum that defines it is not among the sources; the
\* acceptance tests fix its value for the first three cases below, and the
\* specification's default pair (OTHER, OTHER) fixes the fourth.
ErrorTypeCategory(error_type) ==
    CASE error_type \in {"BT_UNAUTHENTICATED", "BT_UNAUTHORIZED",
                         "BT_REQUEST_ERROR", "BT_UNEXPECTED"} -> "BASIS_THEORY_ERROR"
      [] error_type = "EXPIRED_CARD" -> "PAYMENT_METHOD_ERROR"
      [] error_type = "INVALID_API_KEY" -> "OTHER"
      [] error_type = "OTHER" -> "OTHER"
      [] OTHER -> "category of " \o error_type

----------------------------------------------------------------------------
(* What the integration tests expect of the tables *)

\* tests/integration/adyen.py, test_errors: the (ErrorType, ErrorCategory) it
\* expects for each refusalReasonCode of a declined payment.
ADYEN_EXPECTED_ERROR ==
    ("0" :> <<"OTHER", "OTHER">>) @@
    ("2" :> <<"REFUSED", "PROCESSING_ERROR">>) @@
    ("3" :> <<"REFERRAL", "PROCESSING_ERROR">>) @@
    ("4" :> <<"ACQUIRER_ERROR", "OTHER">>) @@
    ("5" :> <<"BLOCKED_CARD", "PAYMENT_METHOD_ERROR">>) @@
    ("6" :> <<"EXPIRED_CARD", "PAYMENT_METHOD_ERROR">>) @@
    ("7" :> <<"INVALID_AMOUNT", "OTHER">>) @@
    ("8" :> <<"INVALID_CARD", "PAYMENT_METHOD_ERROR">>) @@
    ("9" :> <<"OTHER", "OTHER">>) @@
    ("10" :> <<"NOT_SUPPORTED", "PROCESSING_ERROR">>) @@
    ("11" :> <<"AUTHENTICATION_FAILURE", "PAYMENT_METHOD_ERROR">>) @@
    ("12" :> <<"INSUFFICENT_FUNDS", "PAYMENT_METHOD_ERROR">>) @@
    ("14" :> <<"FRAUD", "FRAUD_DECLINE">>) @@
    ("15" :> <<"PAYMENT_CANCELLED", "OTHER">>) @@
    ("16" :> <<"PAYMENT_CANCELLED_BY_CONSUMER", "PROCESSING_ERROR">>) @@
    ("17" :> <<"INVALID_PIN", "PAYMENT_METHOD_ERROR">>) @@
    ("18" :> <<"PIN_TRIES_EXCEEDED", "PAYMENT_METHOD_ERROR">>) @@
    ("19" :> <<"OTHER", "PAYMENT_METHOD_ERROR">>) @@
    ("20" :> <<"FRAUD", "FRAUD_DECLINE">>) @@
    ("21" :> <<"OTHER", "OTHER">>) @@
    ("22" :> <<"FRAUD", "FRAUD_DECLINE">>) @@
    ("23" :> <<"NOT_SUPPORTED", "PROCESSING_ERROR">>) @@
    ("24" :> <<"CVC_INVALID", "PAYMENT_METHOD_ERROR">>) @@
    ("25" :> <<"RESTRICTED_CARD", "PROCESSING_ERROR">>) @@
    ("26" :> <<"STOP_PAYMENT", "PROCESSING_ERROR">>) @@
    ("27" :> <<"OTHER", "OTHER">>) @@
    ("28" :> <<"INSUFFICENT_FUNDS", "PROCESSING_ERROR">>) @@
    ("29" :> <<"INSUFFICENT_FUNDS", "PROCESSING_ERROR">>) @@
    ("31" :> <<"FRAUD", "FRAUD_DECLINE">>) @@
    ("32" :> <<"AVS_DECLINE", "PROCESSING_ERROR">>) @@
    ("33" :> <<"PIN_REQUIRED", "PROCESSING_ERROR">>) @@
    ("34" :> <<"BANK_ERROR", "PROCESSING_ERROR">>) @@
    ("35" :> <<"BANK_ERROR", "PROCESSING_ERROR">>) @@
    ("36" :> <<"PIN_REQUIRED", "PROCESSING_ERROR">>) @@
    ("37" :> <<"CONTACTLESS_FALLBACK", "PROCESSING_ERROR">>) @@
    ("38" :> <<"AUTHENTICATION_REQUIRED", "PROCESSING_ERROR">>) @@
    ("39" :> <<"AUTHENTICATION_FAILURE", "AUTHENTICATION_ERROR">>) @@
    ("40" :> <<"OTHER", "OTHER">>) @@
    ("41" :> <<"PIN_REQUIRED", "PROCESSING_ERROR">>) @@
    ("42" :> <<"AUTHENTICATION_FAILURE", "AUTHENTICATION_ERROR">>) @@
    ("43" :> <<"PIN_REQUIRED", "PROCESSING_ERROR">>) @@
    ("44" :> <<"OTHER", "PROCESSING_ERROR">>) @@
    ("45" :> <<"OTHER", "PROCESSING_ERROR">>) @@
    ("46" :> <<"PROCESSOR_BLOCKED", "PROCESSING_ERROR">>)

\* tests/integration/adyen_integration_test.py, test_errors: the ErrorType it
\* expects for each refusalReasonCode.
ORCHESTRATION_ADYEN_EXPECTED_ERROR ==
    ("0" :> "OTHER") @@
    ("2" :> "REFUSED") @@
    ("3" :> "REFERRAL") @@
    ("4" :> "ACQUIRER_ERROR") @@
    ("5" :> "BLOCKED_CARD") @@
    ("6" :> "EXPIRED_CARD") @@
    ("7" :> "INVALID_AMOUNT") @@
    ("8" :> "INVALID_CARD") @@
    ("9" :> "OTHER") @@
    ("10" :> "NOT_SUPPORTED") @@
    ("11" :> "AUTHENTICATION_FAILURE") @@
    ("12" :> "INSUFFICENT_FUNDS") @@
    ("14" :> "FRAUD") @@
    ("15" :> "PAYMENT_CANCELLED") @@
    ("16" :> "PAYMENT_CANCELLED_BY_CONSUMER") @@
    ("17" :> "INVALID_PIN") @@
    ("18" :> "PIN_TRIES_EXCEEDED") @@
    ("19" :> "OTHER") @@
    ("20" :> "FRAUD") @@
    ("21" :> "OTHER") @@
    ("22" :> "FRAUD") @@
    ("23" :> "NOT_SUPPORTED") @@
    ("24" :> "CVC_INVALID") @@
    ("25" :> "RESTRICTED_CARD") @@
    ("26" :> "STOP_PAYMENT") @@
    ("27" :> "REFUSED") @@
    ("28" :> "INSUFFICENT_FUNDS") @@
    ("29" :> "INSUFFICENT_FUNDS") @@
    ("31" :> "FRAUD") @@
    ("32" :> "AVS_DECLINE") @@
    ("33" :> "PIN_REQUIRED") @@
    ("34" :> "BANK_ERROR") @@
    ("35" :> "BANK_ERROR") @@
    ("36" :> "PIN_REQUIRED") @@
    ("37" :> "CONTACTLESS_FALLBACK") @@
    ("38" :> "AUTHENTICATION_REQUIRED") @@
    ("39" :> "AUTHENTICATION_FAILURE") @@
    ("40" :> "OTHER") @@
    ("41" :> "PIN_REQUIRED") @@
    ("42" :> "AUTHENTICATION_FAILURE") @@
    ("43" :> "PIN_REQUIRED") @@
    ("44" :> "OTHER") @@
    ("45" :> "OTHER") @@
    ("46" :> "PROCESSOR_BLOCKED")

\* tests/integration/checkout_integration_test.py, test_errors: the ErrorType it
\* expects for each Checkout.com error code.
CHECKOUT_EXPECTED_ERROR ==
    ("card_authorization_failed" :> "REFUSED") @@
    ("card_disabled" :> "BLOCKED_CARD") @@
    ("card_expired" :> "EXPIRED_CARD") @@
    ("card_expiry_month_invalid" :> "INVALID_CARD") @@
    ("card_expiry_month_required" :> "INVALID_CARD") @@
    ("card_expiry_year_invalid" :> "INVALID_CARD") @@
    ("card_expiry_year_required" :> "INVALID_CARD") @@
    ("expiry_date_format_invalid" :> "INVALID_CARD") @@
    ("card_not_found" :> "INVALID_CARD") @@
    ("card_number_invalid" :> "INVALID_CARD") @@
    ("card_number_required" :> "INVALID_CARD") @@
    ("issuer_network_unavailable" :> "OTHER") @@
    ("card_not_eligible_domestic_money_transfer" :> "NOT_SUPPORTED") @@
    ("card_not_eligible_cross_border_money_transfer" :> "NOT_SUPPORTED") @@
    ("card_not_eligible_domestic_non_money_transfer" :> "NOT_SUPPORTED") @@
    ("card_not_eligible_cross_border_non_money_transfer" :> "NOT_SUPPORTED") @@
    ("card_not_eligible_domestic_online_gambling" :> "NOT_SUPPORTED") @@
    ("card_not_eligible_cross_border_online_gambling" :> "NOT_SUPPORTED") @@
    ("3ds_not_enabled_for_card" :> "AUTHENTICATION_FAILURE") @@
    ("3ds_not_supported" :> "AUTHENTICATION_FAILURE") @@
    ("amount_exceeds_balance" :> "INSUFFICENT_FUNDS") @@
    ("amount_limit_exceeded" :> "INSUFFICENT_FUNDS") @@
    ("payment_expired" :> "PAYMENT_CANCELLED") @@
    ("cvv_invalid" :> "CVC_INVALID") @@
    ("processing_error" :> "REFUSED") @@
    ("velocity_amount_limit_exceeded" :> "INSUFFICENT_FUNDS") @@
    ("velocity_count_limit_exceeded" :> "INSUFFICENT_FUNDS") @@
    ("address_invalid" :> "AVS_DECLINE") @@
    ("city_invalid" :> "AVS_DECLINE") @@
    ("country_address_invalid" :> "AVS_DECLINE") @@
    ("country_invalid" :> "AVS_DECLINE") @@
    ("country_phone_code_invalid" :> "AVS_DECLINE") @@
    ("country_phone_code_length_invalid" :> "AVS_DECLINE") @@
    ("phone_number_invalid" :> "AVS_DECLINE") @@
    ("phone_number_length_invalid" :> "AVS_DECLINE") @@
    ("zip_invalid" :> "AVS_DECLINE") @@
    ("action_failure_limit_exceeded" :> "PROCESSOR_BLOCKED") @@
    ("token_expired" :> "OTHER") @@
    ("token_in_use" :> "OTHER") @@
    ("token_invalid" :> "OTHER") @@
    ("token_used" :> "OTHER") @@
    ("capture_value_greater_than_authorized" :> "OTHER") @@
    ("capture_value_greater_than_remaining_authorized" :> "OTHER") @@
    ("card_holder_invalid" :> "OTHER") @@
    ("previous_payment_id_invalid" :> "OTHER")

----------------------------------------------------------------------------
(* HTTP responses *)

StatusCodes == {200, 201, 401, 403, 422, 500}

\* str(response.status_code)
str(status_code) ==
    CASE status_code = 200 -> "200"
      [] status_code = 201 -> "201"
      [] status_code = 401 -> "401"
      [] status_code = 403 -> "403"
      [] status_code = 422 -> "422"
      [] status_code = 500 -> "500"

\* requests.Response.ok: raise_for_status() would not raise.
ok(resp) == resp.status_code < 400

DESTINATION_STATUS == "BT-PROXY-DESTINATION-STATUS"

\* Response headers: no destination status, the response's own status, or
\* another status.
ResponseHeaders(status_code) ==
    { EmptyDict,
      (DESTINATION_STATUS :> str(status_code)),
      (DESTINATION_STATUS :> (IF status_code = 200 THEN "401" ELSE "200")) }

AdyenRefusalReasonCodes == DOMAIN ADYEN_ERROR_CODE_MAPPING \cup {"0", "999"}

AdyenResult(resultCode) ==
    [pspReference |-> "psp-1", merchantReference |-> "ref-1",
     amount |-> [value |-> 1, currency |-> "USD"], resultCode |-> resultCode]

Refusal(code) == [refusalReasonCode |-> code, refusalReason |-> "Refusal " \o code]

AdyenBodies ==
    { AdyenResult("Refused") @@ Refusal(c) : c \in AdyenRefusalReasonCodes }
    \cup { AdyenResult(rc) @@ Refusal(c) :
             rc \in {"Error", "Cancelled"}, c \in {"4", "22", "0"} }
    \cup { AdyenResult(rc) : rc \in {"Refused", "Error", "Cancelled"} }
    \cup { AdyenResult("Refused")
             @@ [refusalReasonCode |-> "2", refusalReason |-> NoneValue] }
    \cup { AdyenResult(rc) :
             rc \in {"Authorised", "Received", "Pending", "IdentifyShopper"} }
    \cup { [merchantReference |-> "ref-2"] @@ AdyenResult("Authorised") }
    \cup { AdyenResult("Authorised")
             @@ [paymentMethod |-> [storedPaymentMethodId |-> "stored-1"],
                 additionalData |-> [networkTxReference |-> "ntx-1"]] }
    \cup { AdyenResult("Authorised")
             @@ [additionalData |->
                   ("recurring.recurringDetailReference" :> "recurring-1")] }
    \cup { AdyenResult("Authorised")
             @@ [paymentMethod |-> [storedPaymentMethodId |-> stored],
                 additionalData |->
                   ("recurring.recurringDetailReference" :> "recurring-1")] :
             stored \in {"stored-1", ""} }
    \cup { AdyenResult("Authorised")
             @@ [paymentMethod |-> [storedPaymentMethodId |-> ""]] }
    \cup { [resultCode |-> "Authorised"], EmptyDict }
    \cup { [status |-> 401, errorCode |-> "000", errorType |-> "security",
            message |-> "HTTP Status Response - Unauthorized"],
           [status |-> 422, errorCode |-> "14_006", errorType |-> "validation"] }

CheckoutErrorCodes == DOMAIN CHECKOUT_ERROR_CODE_MAPPING \cup {"unknown_code"}

\* Sequences over S of length at most n.
RECURSIVE SeqsUpTo(_, _)
SeqsUpTo(S, n) ==
    IF n = 0 THEN { <<>> }
    ELSE LET shorter == SeqsUpTo(S, n - 1)
         IN  shorter \cup { Append(q, x) : q \in shorter, x \in S }

CheckoutErrorCodeLists ==
    { <<c>> : c \in CheckoutErrorCodes }
    \cup SeqsUpTo({"card_expired", "processing_error", "unknown_code"}, MaxErrorCodes)

CheckoutPayment(status) ==
    [id |-> "pay-1", reference |-> "ref-1", amount |-> 1, currency |-> "USD",
     status |-> status]

CheckoutBodies ==
    { [request_id |-> "req-1", error_type |-> "processing_error", error_codes |-> l] :
        l \in CheckoutErrorCodeLists }
    \cup { CheckoutPayment(st) :
             st \in {"Authorized", "Pending", "Card Verified", "Declined", "Captured"} }
    \cup { [reference |-> "ref-2"] @@ CheckoutPayment("Authorized") }
    \cup { CheckoutPayment("Authorized")
             @@ [source |-> [id |-> "src-provisioned"],
                 processed_on |-> "2024-01-01T00:00:00.000Z",
                 processing |-> [acquirer_transaction_id |-> "acq-1"]] }
    \cup { [request_id |-> "req-1", error_type |-> "request_invalid"],
           [status |-> "Authorized"], EmptyDict }

\* Bodies the proxy itself answers with; errors is the proxy's dictionary, in
\* iteration order, as <<key, value>> pairs.
ProxyBodies ==
    { [proxy_error |-> [status |-> 401, errors |-> <<>>,
                        detail |-> "The BT-API-KEY header is required",
                        title |-> "Unauthorized proxy request"]],
      [proxy_error |-> [status |-> 400,
                        errors |-> << <<"BT-PROXY-URL", "invalid">>,
                                      <<"body", "expression failed">> >>,
                        title |-> "Invalid proxy request"]],
      [proxy_error |-> [status |-> 500, title |-> "Proxy failure"]] }

\* What requests.request returns: parses says whether response.json() succeeds,
\* data is what it gives, text is response.text.
ResponsesWithStatus(bodies, st) ==
    { [status_code |-> st, headers |-> h, parses |-> TRUE, text |-> "json", data |-> d] :
        h \in ResponseHeaders(st), d \in bodies }
    \cup
    { [status_code |-> st, headers |-> h, parses |-> FALSE, text |-> t,
       data |-> EmptyDict] :
        h \in ResponseHeaders(st), t \in {"", "Bad Gateway"} }

AdyenResponses ==
    UNION { ResponsesWithStatus(AdyenBodies \cup ProxyBodies, st) : st \in StatusCodes }

CheckoutResponses ==
    UNION { ResponsesWithStatus(CheckoutBodies \cup ProxyBodies, st) : st \in StatusCodes }

Responses(a) == IF a = "checkout" THEN CheckoutResponses ELSE AdyenResponses

NoResponse == [status_code |-> 0]

\* RequestClient.request has not run, or has not come back.
NotCalled == [raised |-> "", bt_error_response |-> NoneObject, called |-> FALSE]

\* What requests.request returns to concurrent callers: an approval, a
\* refusal, and a gateway failure without a body.
ConcurrentResponses(a) ==
    { [status_code |-> 200, headers |-> (DESTINATION_STATUS :> "200"),
       parses |-> TRUE, text |-> "json",
       data |-> IF a = "checkout" THEN CheckoutPayment(st[1])
                ELSE AdyenResult(st[2])] :
        st \in { <<"Authorized", "Authorised">>, <<"Declined", "Cancelled">> } }
    \cup { [status_code |-> 500, headers |-> EmptyDict, parses |-> FALSE,
            text |-> "Bad Gateway", data |-> EmptyDict] }

----------------------------------------------------------------------------
(* Transport router: error-origin classification *)

\* A classification that takes a response for the proxy's own only when the
\* destination status header is there and differs.
_is_bt_error_header_present(resp) ==
    /\ DESTINATION_STATUS \in DOMAIN resp.headers
    /\ str(resp.status_code) # resp.headers[DESTINATION_STATUS]

\* RequestClient._is_bt_error
_is_bt_error(resp) ==
    LET bt_status == Get(resp.headers, DESTINATION_STATUS, NoneValue)
    IN  bt_status = NoneValue \/ str(resp.status_code) # bt_status

\* The error type _transform_bt_error picks for a status.
bt_error_type(status_code) ==
    IF status_code = 401 THEN "BT_UNAUTHENTICATED"
    ELSE IF status_code = 403 THEN "BT_UNAUTHORIZED"
    ELSE IF status_code < 500 THEN "BT_REQUEST_ERROR"
    ELSE "BT_UNEXPECTED"

\* [f(q[1]), ..., f(q[n])] for f = the provider_errors entry of a proxy error.
RECURSIVE proxy_provider_errors(_)
proxy_provider_errors(items) ==
    IF items = <<>> THEN <<>>
    ELSE << [error |-> Head(items)[1], details |-> Head(items)[2]] >>
         \o proxy_provider_errors(Tail(items))

\* _transform_bt_error keeping of the body only the proxy_error object it
\* read the errors from.
_transform_bt_error_proxy_error_only(resp) ==
    LET response_data ==
            IF resp.parses THEN resp.data
            ELSE [message |-> Or(resp.text, "Unknown error")]
    IN  [error_codes |->
            << [category |-> ErrorTypeCategory(bt_error_type(resp.status_code)),
                code |-> ErrorTypeCode(bt_error_type(resp.status_code))] >>,
         provider_errors |->
            proxy_provider_errors(
                Get(Get(response_data, "proxy_error", EmptyDict), "errors", <<>>)),
         full_provider_response |-> Get(response_data, "proxy_error", EmptyDict)]

\* RequestClient._transform_bt_error
_transform_bt_error(resp) ==
    LET response_data ==
            IF resp.parses THEN resp.data
            ELSE [message |-> Or(resp.text, "Unknown error")]
    IN  [error_codes |->
            << [category |-> ErrorTypeCategory(bt_error_type(resp.status_code)),
                code |-> ErrorTypeCode(bt_error_type(resp.status_code))] >>,
         provider_errors |->
            proxy_provider_errors(
                Get(Get(response_data, "proxy_error", EmptyDict), "errors", <<>>)),
         full_provider_response |-> response_data]

\* RequestClient.request after requests.request: "" when it returns the
\* response, else the exception it raises, with the bt_error_response attribute
\* set on it (NoneObject when the attribute is not set).
request_receive(resp) ==
    IF ~ok(resp) /\ _is_bt_error(resp)
    THEN [raised |-> "HTTPError", bt_error_response |-> _transform_bt_error(resp)]
    ELSE IF ~ok(resp)
    THEN [raised |-> "HTTPError", bt_error_response |-> NoneObject]
    ELSE [raised |-> "", bt_error_response |-> NoneObject]

----------------------------------------------------------------------------
(* Response transformation *)

CreatedAt == "now"

\* AdyenClient._get_status_code
adyen_get_status_code(adyen_result_code) ==
    Get(ADYEN_STATUS_CODE_MAPPING, adyen_result_code, "DECLINED")

\* A status lookup that takes a status outside the table for pending.
checkout_get_status_code_pending(checkout_status) ==
    Get(CHECKOUT_STATUS_CODE_MAPPING, checkout_status, "PENDING")

\* CheckoutClient._get_status_code
checkout_get_status_code(checkout_status) ==
    Get(CHECKOUT_STATUS_CODE_MAPPING, checkout_status, "DECLINED")

\* A provisioned sub-object that prefers the deprecated recurring detail
\* reference to the stored payment method id.
adyen_provisioned_deprecated_first(response_data) ==
    LET stored == Get(Get(response_data, "paymentMethod", EmptyDict),
                      "storedPaymentMethodId", "")
        recurring == Get(Get(response_data, "additionalData", EmptyDict),
                         "recurring.recurringDetailReference", "")
    IN  IF Truthy(stored) \/ Truthy(recurring)
        THEN [id |-> Or(recurring, stored)]
        ELSE NoneObject

\* The provisioned sub-object of an Adyen response: the stored payment method
\* id, else the deprecated recurring detail reference, else None.
adyen_provisioned(response_data) ==
    LET stored == Get(Get(response_data, "paymentMethod", EmptyDict),
                      "storedPaymentMethodId", "")
        recurring == Get(Get(response_data, "additionalData", EmptyDict),
                         "recurring.recurringDetailReference", "")
    IN  IF Truthy(stored) \/ Truthy(recurring)
        THEN [id |-> Or(stored, recurring)]
        ELSE NoneObject

\* The first key of keys (in the order given) that d lacks, "" if none.
RECURSIVE FirstMissing(_, _)
FirstMissing(d, keys) ==
    IF keys = <<>> THEN ""
    ELSE IF Head(keys) \notin DOMAIN d THEN Head(keys)
    ELSE FirstMissing(d, Tail(keys))

\* payment_orchestration_sdk AdyenClient._transform_adyen_response: the key
\* whose subscript raises KeyError ("" for none) and the value returned.
_transform_adyen_response(response_data, request) ==
    LET missing ==
            FirstMissing(response_data,
                         <<"pspReference", "merchantReference", "amount", "resultCode">>)
    IN  IF missing # ""
        THEN [key_error |-> missing, value |-> NoneObject]
        ELSE [key_error |-> "",
              value |->
                [id |-> response_data["pspReference"],
                 reference |-> response_data["merchantReference"],
                 amount |-> [value |-> response_data["amount"]["value"],
                             currency |-> response_data["amount"]["currency"]],
                 status |-> [code |-> adyen_get_status_code(response_data["resultCode"]),
                             provider_code |-> response_data["resultCode"]],
                 source |-> [type |-> request.source.type,
                             id |-> request.source.id,
                             provisioned |-> adyen_provisioned(response_data)],
                 networkTransactionId |->
                    Get(Get(response_data, "additionalData", EmptyDict),
                        "networkTxReference", NoneValue),
                 full_provider_response |-> response_data,
                 created_at |-> CreatedAt]]

\* orchestration_sdk AdyenClient._transform_adyen_response: every key is read
\* with .get, so nothing raises.
orchestration_transform_adyen_response(response_data, request) ==
    [id |-> Get(response_data, "pspReference", NoneValue),
     reference |-> Get(response_data, "merchantReference", NoneValue),
     amount |->
        [value |-> Get(Get(response_data, "amount", EmptyDict), "value", NoneValue),
         currency |->
            Get(Get(response_data, "amount", EmptyDict), "currency", NoneValue)],
     status |->
        [code |-> IF Truthy(Get(response_data, "resultCode", NoneValue))
                  THEN adyen_get_status_code(response_data["resultCode"])
                  ELSE "DECLINED",
         provider_code |-> Get(response_data, "resultCode", NoneValue)],
     source |-> [type |-> request.source.type,
                 id |-> request.source.id,
                 provisioned |-> adyen_provisioned(response_data)],
     network_transaction_id |->
        Get(Get(response_data, "additionalData", EmptyDict),
            "networkTxReference", NoneValue),
     full_provider_response |-> response_data,
     created_at |-> CreatedAt]

\* CheckoutClient._transform_checkout_response, as _transform_adyen_response.
_transform_checkout_response(response_data, request) ==
    LET missing ==
            FirstMissing(response_data,
                         <<"id", "reference", "amount", "currency", "status">>)
    IN  IF missing # ""
        THEN [key_error |-> missing, value |-> NoneObject]
        ELSE [key_error |-> "",
              value |->
                [id |-> response_data["id"],
                 reference |-> response_data["reference"],
                 amount |-> [value |-> response_data["amount"],
                             currency |-> response_data["currency"]],
                 status |-> [code |-> checkout_get_status_code(response_data["status"]),
                             provider_code |-> response_data["status"]],
                 source |->
                    [type |-> request.source.type,
                     id |-> request.source.id,
                     provisioned |->
                        IF Truthy(Get(Get(response_data, "source", EmptyDict),
                                      "id", NoneValue))
                        THEN [id |-> response_data["source"]["id"]]
                        ELSE NoneObject],
                 full_provider_response |-> response_data,
                 created_at |->
                    IF Truthy(Get(response_data, "processed_on", NoneValue))
                    THEN "isoformat " \o response_data["processed_on"]
                    ELSE NoneValue,
                 networkTransactionId |->
                    Get(Get(response_data, "processing", EmptyDict),
                        "acquirer_transaction_id", NoneValue)]]

----------------------------------------------------------------------------
(* Error transformation *)

\* The decline test without Cancelled.
DeclineResultCodes_without_cancelled == {"Refused", "Error"}

DeclineResultCodes == {"Refused", "Error", "Cancelled"}

\* The decline branch unpacking the table's (ErrorType, ErrorCategory) pair in
\* the other order.
adyen_decline_response_swapped(response_data) ==
    LET refusal_code == Get(response_data, "refusalReasonCode", "")
        mapped == Get(ADYEN_ERROR_CODE_MAPPING, refusal_code, <<"OTHER", "OTHER">>)
    IN  [error_codes |-> << [category |-> mapped[1], code |-> mapped[2]] >>,
         provider_errors |-> << Get(response_data, "refusalReason", "") >>,
         full_provider_response |-> response_data]

\* payment_orchestration_sdk AdyenClient.transaction, the decline branch of a
\* returned response (resultCode in Refused / Error / Cancelled).
adyen_decline_response(response_data) ==
    LET refusal_code == Get(response_data, "refusalReasonCode", "")
        mapped == Get(ADYEN_ERROR_CODE_MAPPING, refusal_code, <<"OTHER", "OTHER">>)
    IN  [error_codes |-> << [category |-> mapped[2], code |-> mapped[1]] >>,
         provider_errors |-> << Get(response_data, "refusalReason", "") >>,
         full_provider_response |-> response_data]

\* payment_orchestration_sdk AdyenClient.transaction, the HTTPError handler,
\* once the error body is parsed.
adyen_http_error_response(resp, response_data) ==
    [error_codes |->
        << IF resp.status_code = 401
           THEN [category |-> "AUTHENTICATION_ERROR", code |-> "INVALID_API_KEY"]
           ELSE IF resp.status_code = 403
           THEN [category |-> "AUTHENTICATION_ERROR", code |-> "UNAUTHORIZED"]
           ELSE [category |-> "PROCESSING_ERROR", code |-> "OTHER"] >>,
     provider_errors |-> << Get(response_data, "message", "") >>,
     full_provider_response |-> response_data]

\* orchestration_sdk AdyenClient._transform_error_response
orchestration_transform_error_response(resp, response_data) ==
    LET error_type ==
            IF resp.status_code = 401 THEN "INVALID_API_KEY"
            ELSE IF resp.status_code = 403 THEN "UNAUTHORIZED"
            ELSE IF Get(response_data, "resultCode", NoneValue) \in DeclineResultCodes
            THEN Get(ORCHESTRATION_ADYEN_ERROR_CODE_MAPPING,
                     Get(response_data, "refusalReasonCode", ""), "OTHER")
            ELSE "OTHER"
    IN  [error_codes |-> << [category |-> ErrorTypeCategory(error_type),
                             code |-> ErrorTypeCode(error_type)] >>,
         provider_errors |->
            << Or(Get(response_data, "refusalReason", NoneValue),
                  Get(response_data, "message", "")) >>,
         full_provider_response |-> response_data]

\* CheckoutClient._get_error_code
_get_error_code(error) ==
    [category |-> ErrorTypeCategory(error), code |-> ErrorTypeCode(error)]

\* [self._get_error_code(ERROR_CODE_MAPPING.get(c, ErrorType.OTHER)) for c in codes]
RECURSIVE checkout_map_error_codes(_)
checkout_map_error_codes(codes) ==
    IF codes = <<>> THEN <<>>
    ELSE << _get_error_code(Get(CHECKOUT_ERROR_CODE_MAPPING, Head(codes), "OTHER")) >>
         \o checkout_map_error_codes(Tail(codes))

\* _transform_error_response without its last step, the OTHER entry that
\* stands in for an empty list of codes.
_transform_error_response_no_fallback(resp, error_data) ==
    LET listed == IF error_data = NoneObject THEN <<>>
                  ELSE Get(error_data, "error_codes", <<>>)
    IN  [error_codes |->
            IF resp.status_code = 401 THEN << _get_error_code("INVALID_API_KEY") >>
            ELSE IF resp.status_code = 403 THEN << _get_error_code("UNAUTHORIZED") >>
            ELSE checkout_map_error_codes(listed),
         provider_errors |-> listed,
         full_provider_response |-> error_data]

\* CheckoutClient._transform_error_response; error_data is NoneObject for None.
_transform_error_response(resp, error_data) ==
    LET listed == IF error_data = NoneObject THEN <<>>
                  ELSE Get(error_data, "error_codes", <<>>)
        mapped == checkout_map_error_codes(listed)
    IN  [error_codes |->
            IF resp.status_code = 401 THEN << _get_error_code("INVALID_API_KEY") >>
            ELSE IF resp.status_code = 403 THEN << _get_error_code("UNAUTHORIZED") >>
            ELSE IF error_data # NoneObject
            THEN (IF mapped = <<>> THEN << _get_error_code("OTHER") >> ELSE mapped)
            ELSE << _get_error_code("OTHER") >>,
         provider_errors |->
            IF error_data # NoneObject /\ error_data # EmptyDict
            THEN Get(error_data, "error_codes", <<>>) ELSE <<>>,
         full_provider_response |-> error_data]

----------------------------------------------------------------------------
(* The adapters' transaction handlers *)

\* payment_orchestration_sdk AdyenClient.transaction, its two outer except
\* clauses: what an exception raised inside the try block leaves as.
transaction_except(exception, message) ==
    IF exception = "KeyError"
    THEN Raised("ValidationError", "Missing required field: " \o message)
    ELSE Raised("ProcessingError", "Error processing transaction: " \o message)

\* A transaction that checks nothing and builds the request with defaults for
\* whatever the caller left out.
TransactionPrepare_unvalidated(a, data) ==
    LET amount == Get(data, "amount", EmptyDict)
        source == Get(data, "source", EmptyDict)
    IN  [outcome |-> NoResult,
         request |->
            [amount |-> [value |-> Get(amount, "value", 0),
                         currency |-> Get(amount, "currency", "USD")],
             source |-> [type |-> Get(source, "type", PROCESSOR_TOKEN),
                         id |-> Get(source, "id", NoneValue),
                         store_with_provider |->
                             Get(source, "store_with_provider", FALSE),
                         holderName |-> Get(source, "holderName", NoneValue)],
             metadata |-> NoneObject,
             override_provider_properties |-> NoneObject]
            @@ OptionalFields(data)]

\* transaction up to the dispatch: validation and request construction.  The
\* exception the call ends with ("" when it goes on), and the request built.
TransactionPrepare(a, data) ==
    LET invalid == IF a = "adyen" THEN _validate_required_fields(data)
                   ELSE validate_required_fields(data)
        built == IF a = "orchestration_adyen"
                 THEN orchestration_create_transaction_request(data)
                 ELSE create_transaction_request(data)
        raised == IF invalid # "" THEN Raised("ValidationError", invalid)
                  ELSE IF built.exception # ""
                  THEN Raised(built.exception, built.message)
                  ELSE NoResult
    IN  [outcome |-> IF raised.kind = "raise" /\ a = "adyen"
                     THEN transaction_except(raised.exception, raised.message)
                     ELSE raised,
         request |-> IF raised.kind = "raise" THEN NoneObject ELSE built.request]

\* payment_orchestration_sdk AdyenClient.transaction from the return of
\* request_client.request on.
adyen_transaction_result(resp, request) ==
    LET r == request_receive(resp)
    IN  IF ~resp.parses
        THEN transaction_except("JSONDecodeError", "Expecting value")
        ELSE IF r.raised = "HTTPError"
        THEN Returned(adyen_http_error_response(resp, resp.data))
        ELSE IF Get(resp.data, "resultCode", NoneValue) \in DeclineResultCodes
        THEN Returned(adyen_decline_response(resp.data))
        ELSE LET t == _transform_adyen_response(resp.data, request)
             IN  IF t.key_error # ""
                 THEN transaction_except("KeyError", "'" \o t.key_error \o "'")
                 ELSE Returned(t.value)

\* CheckoutClient.transaction from the return of request_client.request on.
checkout_transaction_result(resp, request) ==
    LET r == request_receive(resp)
    IN  IF r.raised = "HTTPError"
        THEN IF r.bt_error_response # NoneObject
             THEN Returned(r.bt_error_response)
             ELSE Returned(_transform_error_response(
                               resp, IF resp.parses THEN resp.data ELSE NoneObject))
        ELSE IF ~resp.parses
        THEN Raised("JSONDecodeError", "Expecting value")
        ELSE LET t == _transform_checkout_response(resp.data, request)
             IN  IF t.key_error # ""
                 THEN Raised("KeyError", "'" \o t.key_error \o "'")
                 ELSE Returned(t.value)

\* orchestration_sdk AdyenClient.transaction from the return of
\* request_client.request on.
orchestration_adyen_transaction_result(resp, request) ==
    LET r == request_receive(resp)
    IN  IF r.raised = "HTTPError" /\ r.bt_error_response # NoneObject
        THEN Returned(r.bt_error_response)
        ELSE IF ~resp.parses
        THEN Raised("JSONDecodeError", "Expecting value")
        ELSE IF r.raised = "HTTPError"
        THEN Returned(orchestration_transform_error_response(resp, resp.data))
        ELSE IF ~ok(resp) \/ Get(resp.data, "resultCode", NoneValue) \in DeclineResultCodes
        THEN Returned(orchestration_transform_error_response(resp, resp.data))
        ELSE Returned(orchestration_transform_adyen_response(resp.data, request))

TransactionResult(a, resp, request) ==
    CASE a = "adyen" -> adyen_transaction_result(resp, request)
      [] a = "checkout" -> checkout_transaction_result(resp, request)
      [] OTHER -> orchestration_adyen_transaction_result(resp, request)

\* requests.request raised (no connection, timeout): nothing catches it but
\* the payment_orchestration_sdk Adyen adapter's except Exception.
TransportFaultResult(a) ==
    IF a = "adyen"
    THEN transaction_except("ConnectionError", "connection failed")
    ELSE Raised("ConnectionError", "connection failed")

----------------------------------------------------------------------------
(* The state machine *)

Init ==
    /\ pc = "idle"
    /\ adapter = "adyen"
    /\ request_data = EmptyDict
    /\ sent = <<>>
    /\ response = NoResponse
    /\ client = NotCalled
    /\ result = NoResult
    /\ instance = NoneObject
    /\ init_call = NoInitCall
    /\ access = NoAccess
    /\ calls = [c \in Callers |-> NoCall]
    /\ frames = [c \in Callers |-> NoFrame]
    /\ operation = "transaction"

\* adapter.transaction(request_data), up to the outbound HTTP call.
transaction(a, data) ==
    /\ pc = "idle"
    /\ adapter' = a
    /\ operation' = "transaction"
    /\ request_data' = data
    /\ response' = NoResponse
    /\ client' = NotCalled
    /\ LET p == TransactionPrepare(a, data)
       IN  IF p.outcome.kind = "raise"
           THEN /\ pc' = "done"
                /\ result' = p.outcome
                /\ sent' = <<>>
           ELSE /\ pc' = "awaiting"
                /\ result' = NoResult
                /\ sent' = sent \o request_calls(base_url(a) \o "/payments", "POST",
                                                 CommonHeaders(a),
                                                 BuildPayload(a, p.request),
                                                 use_bt_proxy(p.request))

\* The network answers; the handler runs to its end.
Respond(resp) ==
    /\ pc = "awaiting"
    /\ response' = resp
    /\ client' = request_receive(resp)
    /\ result' = TransactionResult(adapter, resp,
                                   TransactionPrepare(adapter, request_data).request)
    /\ pc' = "done"
    /\ UNCHANGED <<adapter, request_data, sent, operation>>

\* requests.request raises instead of returning.
TransportFault ==
    /\ pc = "awaiting"
    /\ result' = TransportFaultResult(adapter)
    /\ client' = [raised |-> "ConnectionError", bt_error_response |-> NoneObject]
    /\ pc' = "done"
    /\ UNCHANGED <<adapter, request_data, sent, response, operation>>
    /\ UNCHANGED <<facade_vars, concurrent_vars>>

\* The caller has the outcome; the adapter keeps nothing of the call.
Finish ==
    /\ pc = "done"
    /\ pc' = "idle"
    /\ adapter' = "adyen"
    /\ operation' = "transaction"
    /\ request_data' = EmptyDict
    /\ sent' = <<>>
    /\ response' = NoResponse
    /\ client' = NotCalled
    /\ result' = NoResult
    /\ UNCHANGED <<facade_vars, concurrent_vars>>

\* adapter.refund_transaction(original_id, refund_request): the attribute
\* lookup comes first, and fails on a class without the method.
refund_transaction(a, original_id, refund_request) ==
    /\ pc = "idle"
    /\ getattr(a, "refund_transaction").kind = "raise"
    /\ adapter' = a
    /\ operation' = "refund_transaction"
    /\ request_data' = [original_id |-> original_id] @@ refund_request
    /\ sent' = <<>>
    /\ response' = NoResponse
    /\ client' = NotCalled
    /\ result' = getattr(a, "refund_transaction")
    /\ pc' = "done"

\* A caller asks an adapter for a refund.
Refund ==
    /\ pc = "idle"
    /\ \E a \in Adapters, refund_request \in RefundRequestDicts :
          refund_transaction(a, "pay-1", refund_request)
    /\ UNCHANGED <<facade_vars, concurrent_vars>>

\* A caller calls transaction on one of the adapters.
Call ==
    /\ pc = "idle"
    /\ \E a \in Adapters, data \in RequestDicts : transaction(a, data)
    /\ UNCHANGED <<facade_vars, concurrent_vars>>

\* requests.request returns a response.
Answer ==
    /\ pc = "awaiting"
    /\ \E resp \in Responses(adapter) : Respond(resp)
    /\ UNCHANGED <<facade_vars, concurrent_vars>>

Next ==
    \/ Call
    \/ Refund
    \/ Answer
    \/ TransportFault
    \/ Finish

Spec == Init /\ [][Next]_vars

----------------------------------------------------------------------------
(* The facade: PaymentOrchestrationSDK *)

\* PaymentOrchestrationSDK.init(config): the singleton it leaves behind and
\* how it ends.  _instance is created before the checks, is_test and
\* bt_api_key are stored before providerConfig is read, and each provider
\* found in providerConfig assigns a new ProviderConfig holding that provider
\* alone.
sdk_init(inst, config) ==
    LET self == IF inst = NoneObject THEN NewInstance ELSE inst
        keyed == [self EXCEPT !.is_test = config["isTest"],
                              !.bt_api_key = config["btApiKey"]]
        provider_config == config["providerConfig"]
        with_adyen ==
            IF "adyen" \in DOMAIN provider_config
            THEN [keyed EXCEPT !.provider_config =
                    [adyen |-> [api_key |-> provider_config["adyen"]["apiKey"],
                                merchant_account |->
                                    provider_config["adyen"]["merchantAccount"]],
                     checkout |-> NoneObject]]
            ELSE keyed
        with_checkout ==
            IF "checkout" \in DOMAIN provider_config
            THEN [with_adyen EXCEPT !.provider_config =
                    [adyen |-> NoneObject,
                     checkout |->
                        [private_key |-> provider_config["checkout"]["private_key"],
                         processing_channel |->
                            Get(provider_config["checkout"], "processing_channel",
                                NoneValue)]]]
            ELSE with_adyen
    IN  IF "isTest" \notin DOMAIN config
        THEN [instance |-> self,
              outcome |-> Raised("ConfigurationError",
                                 "'isTest' parameter is required")]
        ELSE IF "btApiKey" \notin DOMAIN config
        THEN [instance |-> self,
              outcome |-> Raised("ConfigurationError",
                                 "'btApiKey' parameter is required")]
        ELSE IF "providerConfig" \notin DOMAIN config
        THEN [instance |-> self,
              outcome |-> Raised("ConfigurationError",
                                 "'providerConfig' parameter is required")]
        ELSE IF "adyen" \in DOMAIN provider_config
                /\ "apiKey" \notin DOMAIN provider_config["adyen"]
        THEN [instance |-> keyed, outcome |-> Raised("KeyError", "'apiKey'")]
        ELSE IF "adyen" \in DOMAIN provider_config
                /\ "merchantAccount" \notin DOMAIN provider_config["adyen"]
        THEN [instance |-> keyed, outcome |-> Raised("KeyError", "'merchantAccount'")]
        ELSE IF "checkout" \in DOMAIN provider_config
                /\ "private_key" \notin DOMAIN provider_config["checkout"]
        THEN [instance |-> with_adyen, outcome |-> Raised("KeyError", "'private_key'")]
        ELSE [instance |-> with_checkout, outcome |-> Returned("_instance")]

\* PaymentOrchestrationSDK.get_instance()
get_instance(inst) ==
    IF inst = NoneObject
    THEN Raised("ConfigurationError",
                "PaymentOrchestrationSDK must be initialized with init() before use")
    ELSE Returned("_instance")

\* PaymentOrchestrationSDK.get_instance().adyen
sdk_adyen(inst) ==
    IF get_instance(inst).kind = "raise" THEN get_instance(inst)
    ELSE IF inst.provider_config = NoneObject
            \/ inst.provider_config.adyen = NoneObject
    THEN Raised("ConfigurationError", "Adyen is not configured")
    ELSE Returned([client |-> "AdyenClient",
                   key |-> inst.provider_config.adyen.api_key,
                   account |-> inst.provider_config.adyen.merchant_account,
                   is_test |-> inst.is_test,
                   bt_api_key |-> inst.bt_api_key])

\* PaymentOrchestrationSDK.get_instance().checkout
sdk_checkout(inst) ==
    IF get_instance(inst).kind = "raise" THEN get_instance(inst)
    ELSE IF inst.provider_config = NoneObject
            \/ inst.provider_config.checkout = NoneObject
    THEN Raised("ConfigurationError", "Checkout is not configured")
    ELSE Returned([client |-> "CheckoutClient",
                   key |-> inst.provider_config.checkout.private_key,
                   account |-> inst.provider_config.checkout.processing_channel,
                   is_test |-> inst.is_test,
                   bt_api_key |-> inst.bt_api_key])

\* A caller initializes the SDK.
SdkInit ==
    \E config \in ConfigDicts :
        /\ instance' = sdk_init(instance, config).instance
        /\ init_call' = [config |-> config,
                         outcome |-> sdk_init(instance, config).outcome]
        /\ access' = NoAccess
        /\ UNCHANGED <<call_vars, concurrent_vars>>

\* A caller reads one of the provider properties.
SdkAccess ==
    \E provider \in Providers :
        /\ access' = [provider |-> provider,
                      outcome |-> IF provider = "adyen" THEN sdk_adyen(instance)
                                  ELSE sdk_checkout(instance)]
        /\ UNCHANGED <<instance, init_call>>
        /\ UNCHANGED <<call_vars, concurrent_vars>>

FacadeNext ==
    \/ SdkInit
    \/ SdkAccess

FacadeSpec == Init /\ [][FacadeNext]_vars

----------------------------------------------------------------------------
(* Concurrent callers of one adapter *)

\* Every invocation keeps its variables in one place shared by all.
shared_frame(c) == 1

\* An invocation's local variables (request, payload, headers) live in the
\* invocation's own frame: no two running invocations share one.
frame_of(c) == c

\* transaction up to the call of RequestClient.request: validation, request
\* construction, payload and headers, all into local variables.
Enter(c, data) ==
    /\ calls[c].pc = "idle"
    /\ LET p == TransactionPrepare(adapter, data)
       IN  IF p.outcome.kind = "raise"
           THEN /\ calls' = [calls EXCEPT ![c] =
                              [pc |-> "done", input |-> data, sent |-> <<>>,
                               response |-> NoResponse, result |-> p.outcome]]
                /\ UNCHANGED frames
           ELSE /\ calls' = [calls EXCEPT ![c] =
                              [pc |-> "built", input |-> data, sent |-> <<>>,
                               response |-> NoResponse, result |-> NoResult]]
                /\ frames' = [frames EXCEPT ![frame_of(c)] =
                               [request |-> p.request,
                                payload |-> BuildPayload(adapter, p.request),
                                headers |-> CommonHeaders(adapter)]]
    /\ UNCHANGED <<call_vars, facade_vars>>

\* RequestClient.request up to requests.request, which sends what the
\* invocation's locals hold; the headers dictionary is updated in place.
Dispatch(c) ==
    /\ calls[c].pc = "built"
    /\ LET frame == frames[frame_of(c)]
           out == request_calls(base_url(adapter) \o "/payments", "POST",
                                frame.headers, frame.payload,
                                use_bt_proxy(frame.request))
       IN  /\ calls' = [calls EXCEPT ![c].pc = "awaiting", ![c].sent = out]
           /\ frames' = [frames EXCEPT ![frame_of(c)].headers = out[1].headers]
    /\ UNCHANGED <<call_vars, facade_vars>>

\* requests.request returns to the invocation, which runs to its end.
Receive(c, resp) ==
    /\ calls[c].pc = "awaiting"
    /\ calls' = [calls EXCEPT
                   ![c].pc = "done",
                   ![c].response = resp,
                   ![c].result = TransactionResult(adapter, resp,
                                                   frames[frame_of(c)].request)]
    /\ UNCHANGED <<frames, call_vars, facade_vars>>

\* requests.request raises in the invocation.
Fault(c) ==
    /\ calls[c].pc = "awaiting"
    /\ calls' = [calls EXCEPT ![c].pc = "done",
                              ![c].result = TransportFaultResult(adapter)]
    /\ UNCHANGED <<frames, call_vars, facade_vars>>

\* The caller has its outcome.
Leave(c) ==
    /\ calls[c].pc = "done"
    /\ calls' = [calls EXCEPT ![c] = NoCall]
    /\ UNCHANGED <<frames, call_vars, facade_vars>>

\* With no call running, the callers turn to another adapter instance.
UseAdapter ==
    /\ \A c \in Callers : calls[c].pc = "idle"
    /\ \E a \in Adapters \ {adapter} : adapter' = a
    /\ UNCHANGED <<calls, frames, single_call_vars, facade_vars>>

CallerEnters == \E c \in Callers, data \in ConcurrentRequestDicts : Enter(c, data)

CallerDispatches == \E c \in Callers : Dispatch(c)

CallerReceives ==
    \E c \in Callers :
        /\ calls[c].pc = "awaiting"
        /\ \E resp \in ConcurrentResponses(adapter) : Receive(c, resp)

CallerFaults == \E c \in Callers : Fault(c)

CallerLeaves == \E c \in Callers : Leave(c)

ConcurrentNext ==
    \/ CallerEnters
    \/ CallerDispatches
    \/ CallerReceives
    \/ CallerFaults
    \/ CallerLeaves
    \/ UseAdapter

ConcurrentSpec == Init /\ [][ConcurrentNext]_vars

----------------------------------------------------------------------------
(* Properties *)

\* The call came back from the network with a failure status.
Failed == pc = "done" /\ response # NoResponse /\ ~ok(response)

\* The failure is the proxy's own: no destination status header, or one that
\* differs from the response's status.
ProxyOrigin ==
    \/ DESTINATION_STATUS \notin DOMAIN response.headers
    \/ response.headers[DESTINATION_STATUS] # str(response.status_code)

BasisTheoryCodes ==
    {"BT_UNAUTHENTICATED", "BT_UNAUTHORIZED", "BT_REQUEST_ERROR", "BT_UNEXPECTED"}

ErrorResponseKeys == {"error_codes", "provider_errors", "full_provider_response"}

IsErrorResponse(value) == DOMAIN value = ErrorResponseKeys

\* C1: on every adapter, a failure of proxy origin whose body is readable ends
\* the call by returning an ErrorResponse whose one code is a BASIS_THEORY_ERROR
\* code of the proxy table, BT_UNAUTHENTICATED for a 401; the processor's
\* mapping (INVALID_API_KEY, ...) is never used for it.
C1_ProxyFailureKeepsProxyCode ==
    (Failed /\ ProxyOrigin /\ response.parses) =>
        /\ result.kind = "return"
        /\ IsErrorResponse(result.value)
        /\ Len(result.value.error_codes) = 1
        /\ result.value.error_codes[1].category = "BASIS_THEORY_ERROR"
        /\ result.value.error_codes[1].code \in BasisTheoryCodes
        /\ response.status_code = 401 =>
               result.value.error_codes[1].code = "BT_UNAUTHENTICATED"

\* C2: when the call comes back with a failure status, RequestClient.request
\* raises HTTPError, and it attaches the proxy's ErrorResponse to it exactly
\* when the destination status header is absent or differs from the status;
\* otherwise the error goes on to the adapter untouched.
C2_ProxyOriginClassification ==
    Failed =>
        /\ client.raised = "HTTPError"
        /\ (client.bt_error_response # NoneObject) <=> ProxyOrigin
        /\ ProxyOrigin =>
               /\ IsErrorResponse(client.bt_error_response)
               /\ client.bt_error_response.error_codes[1].code \in BasisTheoryCodes

\* A 401 with no destination status header: classified as the proxy's.
C2_Witness ==
    /\ Failed
    /\ response.status_code = 401
    /\ DESTINATION_STATUS \notin DOMAIN response.headers
    /\ client.bt_error_response # NoneObject
    /\ client.bt_error_response.error_codes[1].code = "BT_UNAUTHENTICATED"

\* C3: an outbound request goes to the Basis Theory proxy endpoint, with the
\* processor's URL in BT-PROXY-URL and the BT-API-KEY header, exactly when
\* source.type is not PROCESSOR_TOKEN; otherwise it goes to the processor's
\* URL with neither header.
C3_ProxyIffNotProcessorToken ==
    \A i \in DOMAIN sent :
        LET direct == request_data["source"]["type"] = PROCESSOR_TOKEN
            processor_url == base_url(adapter) \o "/payments"
        IN  IF direct
            THEN /\ sent[i].url = processor_url
                 /\ DOMAIN sent[i].headers \cap {"BT-API-KEY", "BT-PROXY-URL"} = {}
            ELSE /\ sent[i].url = BT_PROXY_ENDPOINT
                 /\ "BT-API-KEY" \in DOMAIN sent[i].headers
                 /\ sent[i].headers["BT-PROXY-URL"] = processor_url

\* A token intent on its way through the proxy.
C3_Witness ==
    /\ pc = "awaiting"
    /\ request_data["source"]["type"] = BASIS_THEORY_TOKEN_INTENT
    /\ Len(sent) = 1
    /\ sent[1].url = BT_PROXY_ENDPOINT

\* C4: a call whose dictionary lacks amount.value, source.type or source.id
\* issues no outbound HTTP request.
C4_NoRequestWithoutRequiredFields ==
    (operation = "transaction" /\ LacksRequiredField(request_data)) => sent = <<>>

\* A call without source.id has ended, and nothing was sent.
C4_Witness ==
    /\ pc = "done"
    /\ operation = "transaction"
    /\ "amount" \in DOMAIN request_data
    /\ "value" \in DOMAIN request_data["amount"]
    /\ "source" \in DOMAIN request_data
    /\ "id" \notin DOMAIN request_data["source"]
    /\ result.kind = "raise"
    /\ sent = <<>>

\* The message of the validation error for a dictionary that lacks a field.
MissingFieldMessage(data) ==
    IF "amount" \notin DOMAIN data \/ "value" \notin DOMAIN data["amount"]
    THEN "amount.value is required"
    ELSE "source.type and source.id are required"

\* C5: a call whose dictionary lacks amount.value, source.type or source.id
\* ends by raising ValidationError with the message that names the missing
\* field; it raises nothing else and returns nothing.
C5_MissingFieldRaisesValidationError ==
    (pc = "done" /\ operation = "transaction" /\ LacksRequiredField(request_data)) =>
        result = Raised("ValidationError", MissingFieldMessage(request_data))

\* The input checks made before dispatch pass: the required fields are there,
\* source.type is a value of SourceType and type, when given, one of
\* RecurringType.
InputAccepted ==
    /\ operation = "transaction"
    /\ ~LacksRequiredField(request_data)
    /\ request_data["source"]["type"] \in
           (IF adapter = "orchestration_adyen" THEN OrchestrationSourceType
            ELSE SourceType)
    /\ "type" \in DOMAIN request_data => request_data["type"] \in RecurringType

TransactionResponseKeys ==
    {"id", "reference", "amount", "status", "source", "full_provider_response",
     "created_at"}

IsTransactionResponse(value) ==
    /\ TransactionResponseKeys \subseteq DOMAIN value
    /\ DOMAIN value \cap {"error_codes", "provider_errors"} = {}

\* C7: what a call returns is either a TransactionResponse or an
\* ErrorResponse, never a mix of the two, and an ErrorResponse holds at least
\* one ErrorCode (a category and a code), whichever way the error arose.
C7_ResponseOrErrorWithCode ==
    result.kind = "return" =>
        \/ IsTransactionResponse(result.value)
        \/ /\ IsErrorResponse(result.value)
           /\ Len(result.value.error_codes) >= 1
           /\ \A i \in DOMAIN result.value.error_codes :
                  DOMAIN result.value.error_codes[i] = {"category", "code"}

\* Checkout.com answered 422 with an empty error_codes list: the ErrorResponse
\* holds the one OTHER code.
C7_Witness ==
    /\ Failed
    /\ adapter = "checkout"
    /\ ~ProxyOrigin
    /\ response.parses
    /\ Get(response.data, "error_codes", << "none" >>) = <<>>
    /\ result.kind = "return"
    /\ Len(result.value.error_codes) = 1
    /\ result.value.error_codes[1].code = "OTHER"

AdyenDeclined ==
    /\ pc = "done"
    /\ adapter \in AdyenAdapters
    /\ response # NoResponse
    /\ ok(response)
    /\ response.parses
    /\ Get(response.data, "resultCode", NoneValue) \in {"Refused", "Error", "Cancelled"}

CheckoutRefused ==
    /\ Failed
    /\ adapter = "checkout"
    /\ ~ProxyOrigin
    /\ response.status_code \notin {401, 403}
    /\ response.parses
    /\ "error_codes" \in DOMAIN response.data

\* The ErrorType C10 gives an element of error_codes: the one the integration
\* test expects, the table's for the elements the test leaves out, OTHER for
\* an element outside the table.
CheckoutExpectedType(code) ==
    IF code \in DOMAIN CHECKOUT_EXPECTED_ERROR THEN CHECKOUT_EXPECTED_ERROR[code]
    ELSE Get(CHECKOUT_ERROR_CODE_MAPPING, code, "OTHER")

\* C10: a Checkout.com failure other than 401 / 403 whose body lists the error
\* codes L is returned as an ErrorResponse with one ErrorCode per element of L,
\* in order, each the ErrorType the integration test expects for that element
\* (card_expired: EXPIRED_CARD, processing_error: REFUSED; OTHER for an element
\* outside the table), a single OTHER when L is empty, and provider_errors = L.
C10_CheckoutErrorCodesAsTested ==
    CheckoutRefused =>
        LET L == response.data["error_codes"]
            errors == result.value.error_codes
        IN  /\ result.kind = "return"
            /\ IsErrorResponse(result.value)
            /\ result.value.provider_errors = L
            /\ IF L = <<>>
               THEN Len(errors) = 1 /\ errors[1].code = "OTHER"
               ELSE /\ Len(errors) = Len(L)
                    /\ \A i \in DOMAIN L :
                           errors[i].code = CheckoutExpectedType(L[i])

\* The processor itself answered 401 or 403, with a body that parses.
ProcessorAuthFailure ==
    /\ Failed
    /\ ~ProxyOrigin
    /\ response.status_code \in {401, 403}
    /\ response.parses

\* C11: a processor-origin 401 (403) is returned, on every adapter alike, as
\* the single ErrorCode INVALID_API_KEY (UNAUTHORIZED), whatever the body
\* holds; for 401 its category is OTHER, the one the acceptance tests of both
\* providers expect.
C11_AuthFailureSameOnEveryAdapter ==
    ProcessorAuthFailure =>
        /\ result.kind = "return"
        /\ IsErrorResponse(result.value)
        /\ Len(result.value.error_codes) = 1
        /\ result.value.error_codes[1].code =
               (IF response.status_code = 401 THEN "INVALID_API_KEY"
                ELSE "UNAUTHORIZED")
        /\ response.status_code = 401 =>
               result.value.error_codes[1].category = "OTHER"

\* The call sent a request and its input carried a non-empty
\* override_provider_properties.
OverridesGiven ==
    /\ Len(sent) = 1
    /\ "override_provider_properties" \in DOMAIN request_data
    /\ request_data["override_provider_properties"] # EmptyDict

\* The override keys of OverrideDicts that hold a string.
ScalarOverrideKeys ==
    {"shopperInteraction", "captureDelayHours", "currency", "reference"}

\* C12: on every adapter the payload sent for a request that carries
\* override_provider_properties has the overrides merged in last, so that an
\* override value wins over the derived one: a string-valued override key
\* holds the override's value, and on the Adyen adapters, whose amount is an
\* object, each overridden sub-field of amount holds the override's value.
C12_OverrideWinsOnEveryAdapter ==
    OverridesGiven =>
        LET overrides == request_data["override_provider_properties"]
            payload == sent[1].json
        IN  /\ \A k \in DOMAIN overrides \cap ScalarOverrideKeys :
                  /\ k \in DOMAIN payload
                  /\ payload[k] = overrides[k]
            /\ (adapter # "checkout" /\ "amount" \in DOMAIN overrides) =>
                  \A j \in DOMAIN overrides["amount"] :
                      payload["amount"][j] = overrides["amount"][j]

\* Some key of d among keys holds a non-empty value.
HasAny(d, keys) == \E k \in DOMAIN d \cap keys : Truthy(d[k])

\* The optional dictionaries of the caller's input ({} where there is none).
GivenCustomer == Get(request_data, "customer", EmptyDict)
GivenAddress == Get(GivenCustomer, "address", EmptyDict)
GivenStatement == Get(request_data, "statement_description", EmptyDict)
GivenThreeDS == Get(request_data, "3ds", EmptyDict)

\* The optional blocks of the payload that was sent, by what each adapter
\* calls them.
SentPayload == sent[1].json

HasCustomerBlock ==
    IF adapter = "checkout" THEN "customer" \in DOMAIN SentPayload
    ELSE "shopperName" \in DOMAIN SentPayload

HasBillingAddressBlock ==
    IF adapter = "checkout" THEN "billing_address" \in DOMAIN SentPayload["source"]
    ELSE "billingAddress" \in DOMAIN SentPayload

HasStatementBlock ==
    IF adapter = "checkout" THEN "billing_descriptor" \in DOMAIN SentPayload["source"]
    ELSE "shopperStatement" \in DOMAIN SentPayload

HasThreeDSBlock ==
    IF adapter = "checkout" THEN "3ds" \in DOMAIN SentPayload
    ELSE "additionalData" \in DOMAIN SentPayload

\* No optional block of the payload is an object without keys.
NoEmptyBlock ==
    /\ \A k \in DOMAIN SentPayload \cap {"customer", "3ds", "shopperName",
                                         "billingAddress"} :
          DOMAIN SentPayload[k] # {}
    /\ "additionalData" \in DOMAIN SentPayload =>
          DOMAIN SentPayload["additionalData"]["threeDSecure"] # {}
    /\ adapter = "checkout" =>
          \A k \in DOMAIN SentPayload["source"] \cap {"billing_address",
                                                      "billing_descriptor"} :
              DOMAIN SentPayload["source"][k] # {}

\* C13: in the payload an adapter sends, an optional block (customer or
\* shopper name, billing address, statement descriptor, 3DS data) is there
\* exactly when the request gives a value to at least one of the sub-fields
\* the block is made of, so a request with only the required fields yields
\* none of them, and no optional block is ever an empty object.
C13_OptionalBlocksIffSubField ==
    Len(sent) = 1 =>
        /\ NoEmptyBlock
        /\ HasCustomerBlock <=>
              HasAny(GivenCustomer,
                     IF adapter = "checkout"
                     THEN {"first_name", "last_name", "email"}
                     ELSE {"first_name", "last_name"})
        /\ HasBillingAddressBlock <=>
              HasAny(GivenAddress,
                     {"address_line1", "city", "state", "zip", "country"}
                     \cup (IF adapter = "checkout" THEN {"address_line2"} ELSE {}))
        /\ HasStatementBlock <=>
              HasAny(GivenStatement,
                     IF adapter = "checkout" THEN {"name", "city"} ELSE {"name"})
        /\ HasThreeDSBlock <=>
              HasAny(GivenThreeDS, {"eci", "authentication_value", "xid", "version"})

\* The card-data keys of an Adyen paymentMethod and of a Checkout.com source.
CardDataKeys ==
    {"number", "expiryMonth", "expiryYear", "cvc", "expiry_month", "expiry_year",
     "cvv"}

\* The payment source of the payload that was sent.
SentPaymentSource ==
    IF adapter = "checkout" THEN SentPayload["source"]
    ELSE SentPayload["paymentMethod"]

\* C14: for a PROCESSOR_TOKEN source the payment source of the payload carries
\* the stored-instrument reference (Adyen storedPaymentMethodId, Checkout.com a
\* source of type id) equal to source.id and none of the card-data fields,
\* whatever else the request holds.
C14_ProcessorTokenCarriesNoCardData ==
    (Len(sent) = 1 /\ request_data["source"]["type"] = PROCESSOR_TOKEN) =>
        /\ DOMAIN SentPaymentSource \cap CardDataKeys = {}
        /\ IF adapter = "checkout"
           THEN /\ SentPaymentSource["type"] = "id"
                /\ SentPaymentSource["id"] = request_data["source"]["id"]
           ELSE SentPaymentSource["storedPaymentMethodId"] =
                    request_data["source"]["id"]

\* A merchant-initiated UNSCHEDULED charge of a processor token was sent to
\* Adyen with the shopper's name beside the stored-instrument reference.
C14_Witness ==
    /\ Len(sent) = 1
    /\ adapter = "adyen"
    /\ request_data["source"]["type"] = PROCESSOR_TOKEN
    /\ "holderName" \in DOMAIN request_data["source"]
    /\ Get(request_data, "type", NoneValue) = "UNSCHEDULED"
    /\ SentPaymentSource["storedPaymentMethodId"] = request_data["source"]["id"]
    /\ "holderName" \in DOMAIN SentPaymentSource

\* C15: each of the three source type strings basis_theory_token,
\* basis_theory_token_intent and processor_token is accepted by
\* create_transaction_request, so a call that carries one of them, with the
\* required fields and a valid recurring type, sends its request; for
\* basis_theory_token_intent the card fields of the payload are token_intent
\* expressions that embed source.id.
C15_NamedSourceTypesAccepted ==
    (/\ pc \in {"awaiting", "done"}
     /\ operation = "transaction"
     /\ ~LacksRequiredField(request_data)
     /\ request_data["source"]["type"] \in
            {"basis_theory_token", "basis_theory_token_intent", "processor_token"}
     /\ "type" \in DOMAIN request_data => request_data["type"] \in RecurringType)
    => /\ Len(sent) = 1
       /\ request_data["source"]["type"] = "basis_theory_token_intent" =>
             \A k \in DOMAIN SentPaymentSource \cap CardDataKeys :
                 /\ SentPaymentSource[k].token_prefix = "token_intent"
                 /\ SentPaymentSource[k].id = request_data["source"]["id"]
       /\ request_data["source"]["type"] # "processor_token" =>
             DOMAIN SentPaymentSource \cap CardDataKeys # {}

\* The last init returned the instance, and a provider property was read
\* after it.
ReadAfterInit ==
    /\ init_call.outcome.kind = "return"
    /\ access # NoAccess

\* The providers of the providerConfig the last init was given.
ConfiguredProviders == DOMAIN init_call.config["providerConfig"] \cap Providers

\* The key the config of the last init holds for the provider that was read.
ConfiguredKey ==
    IF access.provider = "adyen"
    THEN init_call.config["providerConfig"]["adyen"]["apiKey"]
    ELSE init_call.config["providerConfig"]["checkout"]["private_key"]

\* C16: after an init that succeeded, whatever inits came before it, reading
\* the property of a provider of that config's providerConfig yields its
\* adapter, built with that config's key (also when adyen and checkout are
\* configured together), and reading the property of a provider absent from
\* it raises ConfigurationError.
C16_ExactlyConfiguredProviders ==
    ReadAfterInit =>
        IF access.provider \in ConfiguredProviders
        THEN /\ access.outcome.kind = "return"
             /\ access.outcome.value.key = ConfiguredKey
        ELSE /\ access.outcome.kind = "raise"
             /\ access.outcome.exception = "ConfigurationError"

\* What a call sends and returns when it is the only one running: functions of
\* its input, the held configuration and the response it was given.
AloneSent(input) ==
    LET p == TransactionPrepare(adapter, input)
    IN  IF p.outcome.kind = "raise" THEN <<>>
        ELSE request_calls(base_url(adapter) \o "/payments", "POST",
                           CommonHeaders(adapter), BuildPayload(adapter, p.request),
                           use_bt_proxy(p.request))

AloneResult(input, resp) ==
    LET p == TransactionPrepare(adapter, input)
    IN  IF p.outcome.kind = "raise" THEN p.outcome
        ELSE IF resp = NoResponse THEN TransportFaultResult(adapter)
        ELSE TransactionResult(adapter, resp, p.request)

\* C17: transaction calls running concurrently on one adapter do not
\* interfere: under every interleaving the request a call dispatched (URL,
\* headers, body) and the result it returned are the ones it would have alone,
\* functions of its own input, its own response and the held configuration.
C17_ConcurrentCallsDoNotInterfere ==
    \A c \in Callers :
        /\ calls[c].pc \in {"awaiting", "done"} =>
              calls[c].sent = AloneSent(calls[c].input)
        /\ calls[c].pc = "done" =>
              calls[c].result = AloneResult(calls[c].input, calls[c].response)

\* Two calls with different inputs overlap: the first has its approval while
\* the second, entered before the first dispatched, still waits.
C17_Witness ==
    /\ calls[1].pc = "done"
    /\ calls[1].result.kind = "return"
    /\ calls[2].pc = "awaiting"
    /\ calls[1].input["reference"] # calls[2].input["reference"]
    /\ calls[1].sent[1].json # calls[2].sent[1].json

\* The processor reported a decline in the body of a success response.
DeclinedInBody ==
    /\ pc = "done"
    /\ response # NoResponse
    /\ ok(response)
    /\ response.parses
    /\ IF adapter = "checkout"
       THEN Get(response.data, "status", NoneValue) = "Declined"
       ELSE Get(response.data, "resultCode", NoneValue) \in
                {"Refused", "Error", "Cancelled"}

\* The processor itself answered with a failure status and a body that parses.
ProcessorError == Failed /\ ~ProxyOrigin /\ response.parses

\* The call was dispatched and met a transport fault: requests.request raised,
\* or the body that came back is not JSON.
TransportFaulted ==
    /\ pc = "done"
    /\ Len(sent) = 1
    /\ \/ client.raised = "ConnectionError"
       \/ response # NoResponse /\ ~response.parses

\* C18: a decline or error the processor reports (a decline in the body of a
\* success response, or a failure status of processor origin) makes
\* transaction return an ErrorResponse as a value, while a transport fault (a
\* network error, a body that is not JSON) ends the call with a raised
\* exception and never with an ErrorResponse.
C18_DeclinesReturnedFaultsRaised ==
    /\ (DeclinedInBody \/ ProcessorError) =>
          /\ result.kind = "return"
          /\ IsErrorResponse(result.value)
    /\ TransportFaulted => result.kind = "raise"

\* An Adyen adapter returned a TransactionResponse.
AdyenTransactionResponse ==
    /\ pc = "done"
    /\ adapter \in AdyenAdapters
    /\ result.kind = "return"
    /\ IsTransactionResponse(result.value)

\* paymentMethod.storedPaymentMethodId and the deprecated additionalData
\* recurring.recurringDetailReference of the provider response ("" for none).
StoredPaymentMethodId ==
    IF "paymentMethod" \in DOMAIN response.data
       /\ "storedPaymentMethodId" \in DOMAIN response.data["paymentMethod"]
    THEN response.data["paymentMethod"]["storedPaymentMethodId"]
    ELSE ""

RecurringDetailReference ==
    IF "additionalData" \in DOMAIN response.data
       /\ "recurring.recurringDetailReference" \in DOMAIN response.data["additionalData"]
    THEN response.data["additionalData"]["recurring.recurringDetailReference"]
    ELSE ""

\* C19: in an Adyen TransactionResponse source.provisioned is there exactly
\* when the provider response holds a non-empty
\* paymentMethod.storedPaymentMethodId or a non-empty additionalData
\* recurring.recurringDetailReference; its id is storedPaymentMethodId when
\* that is non-empty and the deprecated recurringDetailReference otherwise.
C19_ProvisionedPrefersStoredId ==
    AdyenTransactionResponse =>
        /\ result.value.source.provisioned # NoneObject <=>
              (StoredPaymentMethodId # "" \/ RecurringDetailReference # "")
        /\ result.value.source.provisioned # NoneObject =>
              result.value.source.provisioned.id =
                  (IF StoredPaymentMethodId # "" THEN StoredPaymentMethodId
                   ELSE RecurringDetailReference)

\* Adyen sent both references and the response carries the stored payment
\* method id.
C19_Witness ==
    /\ AdyenTransactionResponse
    /\ StoredPaymentMethodId = "stored-1"
    /\ RecurringDetailReference = "recurring-1"
    /\ result.value.source.provisioned = [id |-> "stored-1"]

\* An adapter returned a TransactionResponse.
ReturnedTransactionResponse ==
    /\ pc = "done"
    /\ result.kind = "return"
    /\ IsTransactionResponse(result.value)

\* The status string of the provider response (None when it has none) and the
\* status table of the adapter.
ProviderStatus ==
    IF adapter = "checkout" THEN Get(response.data, "status", NoneValue)
    ELSE Get(response.data, "resultCode", NoneValue)

StatusTable ==
    IF adapter = "checkout" THEN CHECKOUT_STATUS_CODE_MAPPING
    ELSE ADYEN_STATUS_CODE_MAPPING

\* C20: the status code of a TransactionResponse is the entry of the adapter's
\* status table for the provider's status string, and DECLINED for every
\* status string outside the table; provider_code is that string unchanged.
C20_StatusFromTable ==
    ReturnedTransactionResponse =>
        /\ result.value.status.provider_code = ProviderStatus
        /\ result.value.status.code =
              (IF ProviderStatus \in DOMAIN StatusTable
               THEN StatusTable[ProviderStatus]
               ELSE "DECLINED")

\* Checkout.com answered with a status its table does not hold.
C20_Witness ==
    /\ ReturnedTransactionResponse
    /\ adapter = "checkout"
    /\ ProviderStatus = "Captured"
    /\ result.value.status = [code |-> "DECLINED", provider_code |-> "Captured"]

\* What transaction hands to RequestClient.request for the call in progress.
GivenRequest == TransactionPrepare(adapter, request_data).request

GivenUrl == base_url(adapter) \o "/payments"

\* C21: with use_bt_proxy true RequestClient.request sends the call to the one
\* proxy endpoint, method and JSON body unchanged, with all the headers it was
\* given plus BT-API-KEY and a BT-PROXY-URL that holds the processor URL; with
\* use_bt_proxy false the call goes to the processor URL with the headers it
\* was given and no proxy header.
C21_ProxiedCallKeepsRequest ==
    Len(sent) = 1 =>
        /\ sent[1].method = "POST"
        /\ sent[1].json = BuildPayload(adapter, GivenRequest)
        /\ IF use_bt_proxy(GivenRequest)
           THEN /\ sent[1].url = BT_PROXY_ENDPOINT
                /\ DOMAIN sent[1].headers =
                      DOMAIN CommonHeaders(adapter) \cup {"BT-API-KEY", "BT-PROXY-URL"}
                /\ \A h \in DOMAIN CommonHeaders(adapter) :
                      sent[1].headers[h] = CommonHeaders(adapter)[h]
                /\ sent[1].headers["BT-API-KEY"] = bt_api_key
                /\ sent[1].headers["BT-PROXY-URL"] = GivenUrl
           ELSE /\ sent[1].url = GivenUrl
                /\ sent[1].headers = CommonHeaders(adapter)

\* A Checkout.com call on its way through the proxy with its Authorization
\* header beside the proxy's two.
C21_Witness ==
    /\ pc = "awaiting"
    /\ adapter = "checkout"
    /\ Len(sent) = 1
    /\ sent[1].url = BT_PROXY_ENDPOINT
    /\ "Authorization" \in DOMAIN sent[1].headers
    /\ "BT-PROXY-URL" \in DOMAIN sent[1].headers

\* C22: every adapter has a refund operation that takes the original
\* transaction id and a refund request and returns a value: a refund response
\* that echoes the refund request's reference, or an ErrorResponse with at
\* least one ErrorCode when the processor rejects the refund.
C22_RefundReturnsResponseOrError ==
    (pc = "done" /\ operation = "refund_transaction") =>
        /\ result.kind = "return"
        /\ \/ result.value.reference = request_data["reference"]
           \/ /\ IsErrorResponse(result.value)
              /\ Len(result.value.error_codes) >= 1

\* C23: whenever a transaction returns a TransactionResponse, its reference
\* is the reference the caller gave in the request, whatever the body of the
\* provider's response holds.
C23_ReferenceIsCallersReference ==
    (/\ ReturnedTransactionResponse
     /\ operation = "transaction"
     /\ "reference" \in DOMAIN request_data) =>
        result.value.reference = request_data["reference"]

\* The codes the body of the response names: Adyen's refusalReasonCode (""
\* when it has none), the entries of Checkout.com's error_codes.
NamedCodes ==
    IF ~response.parses THEN {}
    ELSE IF adapter = "checkout"
    THEN LET listed == Get(response.data, "error_codes", <<>>)
         IN  { listed[i] : i \in 1..Len(listed) }
    ELSE { Get(response.data, "refusalReasonCode", "") }

ErrorCodeTable ==
    CASE adapter = "checkout" -> CHECKOUT_ERROR_CODE_MAPPING
      [] adapter = "adyen" -> ADYEN_ERROR_CODE_MAPPING
      [] OTHER -> ORCHESTRATION_ADYEN_ERROR_CODE_MAPPING

\* A failure no table has an entry for: a decline in a 2xx Adyen body with an
\* unknown refusal code, or a processor's non-2xx answer other than 401 / 403
\* whose body names no code of the adapter's table.
UnmappedFailure ==
    /\ pc = "done"
    /\ operation = "transaction"
    /\ response # NoResponse
    /\ NamedCodes \cap DOMAIN ErrorCodeTable = {}
    /\ \/ /\ adapter # "checkout"
          /\ ok(response)
          /\ response.parses
          /\ Get(response.data, "resultCode", NoneValue) \in DeclineResultCodes
       \/ /\ ~ok(response)
          /\ ~ProxyOrigin
          /\ response.status_code \notin {401, 403}

\* C24: a failure whose code or status no mapping table holds ends the call
\* by returning an ErrorResponse whose every ErrorCode is (category OTHER,
\* code OTHER); the call never raises.
C24_UnmappedFailureIsOther ==
    UnmappedFailure =>
        /\ result.kind = "return"
        /\ IsErrorResponse(result.value)
        /\ Len(result.value.error_codes) >= 1
        /\ \A i \in 1..Len(result.value.error_codes) :
              result.value.error_codes[i] = [category |-> "OTHER", code |-> "OTHER"]

\* The caller's dictionary has every required key, and its amount.value is
\* negative or its source.id is the empty string.
NegativeAmountOrEmptySourceId ==
    /\ operation = "transaction"
    /\ ~LacksRequiredField(request_data)
    /\ \/ request_data["amount"]["value"] < 0
       \/ request_data["source"]["id"] = ""

\* C25: a request whose amount.value is negative or whose source.id is empty
\* is rejected by validation or request construction: no payload is built from
\* it, nothing is dispatched, and the call ends by raising.
C25_InvalidValuesNeverDispatched ==
    NegativeAmountOrEmptySourceId =>
        /\ sent = <<>>
        /\ pc = "done" => result.kind = "raise"

\* The call went straight to the processor and came back with a failure status.
DirectCallFailed ==
    /\ Failed
    /\ operation = "transaction"
    /\ Len(sent) = 1
    /\ sent[1].url = GivenUrl
    /\ request_data["source"]["type"] = PROCESSOR_TOKEN

\* C26: a failure is attributed to the proxy only when the request went
\* through the proxy: for a direct call (source type PROCESSOR_TOKEN),
\* RequestClient.request turns no failure response of the processor into an
\* error of the proxy table, and the call returns none.
C26_DirectFailureNeverProxyError ==
    DirectCallFailed =>
        /\ client.bt_error_response = NoneObject
        /\ (result.kind = "return" /\ IsErrorResponse(result.value)) =>
              \A i \in 1..Len(result.value.error_codes) :
                  result.value.error_codes[i].code \notin BasisTheoryCodes

\* The payment source of the payload that was sent holds a card field that is
\* a Basis Theory expression.
CarriesExpression ==
    \E k \in DOMAIN SentPaymentSource \cap CardDataKeys :
        DOMAIN SentPaymentSource[k] = DOMAIN Expression("token", "", "")

\* C27: on every adapter and for every source type, a dispatched payload that
\* holds card expressions goes to the proxy endpoint, and a payload that goes
\* straight to the processor's URL holds none.
C27_ExpressionsOnlyThroughProxy ==
    \A i \in DOMAIN sent :
        /\ CarriesExpression => sent[i].url = BT_PROXY_ENDPOINT
        /\ sent[i].url = GivenUrl => ~CarriesExpression

\* A token intent whose card expressions are on their way to the proxy, from
\* the Checkout.com adapter.
C27_Witness ==
    /\ pc = "awaiting"
    /\ adapter = "checkout"
    /\ Len(sent) = 1
    /\ CarriesExpression
    /\ SentPaymentSource["number"].token_prefix = "token_intent"
    /\ sent[1].url = BT_PROXY_ENDPOINT

\* The step is an init that ended with ConfigurationError.
InitRaisedConfigurationError ==
    /\ access' = NoAccess
    /\ init_call'.outcome.kind = "raise"
    /\ init_call'.outcome.exception = "ConfigurationError"

\* C28: get_instance raises ConfigurationError unless an earlier init ended
\* successfully, so it stops raising only with an init that returns; and an
\* init that ends with ConfigurationError leaves the singleton as it was.
C28_FailedInitLeavesSingleton ==
    [][ /\ InitRaisedConfigurationError => instance' = instance
        /\ (get_instance(instance).kind = "raise"
            /\ get_instance(instance').kind = "return") =>
              init_call'.outcome.kind = "return" ]_vars

\* An adapter of payment_orchestration_sdk returned an ErrorResponse.
ReturnedErrorResponse ==
    /\ pc = "done"
    /\ operation = "transaction"
    /\ adapter \in {"adyen", "checkout"}
    /\ result.kind = "return"
    /\ IsErrorResponse(result.value)

\* C29: every ErrorType that a mapping table, an adapter's error transformer
\* or the router's proxy table puts into an ErrorResponse is a member of
\* models.py's ErrorType, and every ErrorCategory the Adyen adapter pairs with
\* one is a member of models.py's ErrorCategory.
C29_ErrorCodesAreEnumMembers ==
    ReturnedErrorResponse =>
        \A i \in 1..Len(result.value.error_codes) :
            /\ result.value.error_codes[i].code \in ErrorType
            /\ adapter = "adyen" =>
                  result.value.error_codes[i].category \in ErrorCategory

\* An Adyen adapter's call came back with an HTTP response.
AdyenAnswered ==
    /\ pc = "done"
    /\ operation = "transaction"
    /\ adapter \in AdyenAdapters
    /\ response # NoResponse

\* The response is 2xx and its resultCode is none of Refused, Error, Cancelled.
AdyenAccepted ==
    /\ ok(response)
    /\ Get(response.data, "resultCode", NoneValue)
          \notin {"Refused", "Error", "Cancelled"}

\* The body is JSON and holds every key the adapter's transformer subscripts.
AdyenBodyReadable ==
    /\ response.parses
    /\ adapter = "adyen" =>
          FirstMissing(response.data,
                       <<"pspReference", "merchantReference", "amount",
                         "resultCode">>) = ""

\* A returned Adyen TransactionResponse is never CANCELLED, and DECLINED only
\* for a resultCode the status table does not hold.
AdyenStatusOfAccepted ==
    AdyenTransactionResponse =>
        /\ result.value.status.code # "CANCELLED"
        /\ result.value.status.code = "DECLINED" =>
              ProviderStatus \notin DOMAIN ADYEN_STATUS_CODE_MAPPING

\* C30 as stated: for Adyen, transaction returns a TransactionResponse exactly
\* when the HTTP response is 2xx and resultCode is none of Refused, Error,
\* Cancelled; a returned TransactionResponse is never CANCELLED and is
\* DECLINED only for a resultCode outside the status table.
C30_AdyenResponseIffAccepted ==
    /\ AdyenAnswered => (AdyenTransactionResponse <=> AdyenAccepted)
    /\ AdyenStatusOfAccepted

\* C30, amended: for Adyen, transaction returns a TransactionResponse exactly
\* when the HTTP response is 2xx, its body is JSON holding the keys the
\* transformer subscripts, and resultCode is none of Refused, Error, Cancelled;
\* a returned TransactionResponse is never CANCELLED and is DECLINED only for a
\* resultCode outside the status table.
C30_AdyenResponseIffAcceptedAndReadable ==
    /\ AdyenAnswered =>
          (AdyenTransactionResponse <=> (AdyenAccepted /\ AdyenBodyReadable))
    /\ AdyenStatusOfAccepted

\* Adyen answered 200 with IdentifyShopper, a resultCode the status table does
\* not hold, and the call returned a TransactionResponse with status DECLINED.
C30_Witness ==
    /\ AdyenAnswered
    /\ adapter = "adyen"
    /\ AdyenTransactionResponse
    /\ response.status_code = 200
    /\ ProviderStatus = "IdentifyShopper"
    /\ result.value.status.code = "DECLINED"

====
